---- MODULE Spec2Model ----
(***************************************************************************)
(* eva-mcp: the framed JSON-RPC transport (src/util/jsonrpc.ts) over a     *)
(* Node.js Readable in paused mode, the server loop and dispatcher         *)
(* (src/server.ts) and the workspace sandbox (src/util/sandbox.ts).        *)
(*                                                                         *)
(* JavaScript runs one job at a time.  A job is a macrotask (a chunk or    *)
(* the end of the input arriving, a handler's file I/O completing, the     *)
(* call of run()), a process.nextTick callback, or a promise continuation  *)
(* (microtask).  After a macrotask, and after every nextTick callback,     *)
(* the nextTick queue is drained before promise continuations run; after   *)
(* a promise continuation, continuations run before nextTick callbacks.    *)
(***************************************************************************)
EXTENDS Integers, Sequences, FiniteSets, TLC

\* Largest number of frames in an input.
MaxFrames == 2

-----------------------------------------------------------------------------
(* Bytes.  A byte of the model is an indivisible piece of text: a header   *)
(* name with its colon, a header value, CR, LF, or a piece of a JSON body. *)

B(t, v) == [t |-> t, v |-> v, c |-> ""]
\* a piece that carries text: a string member of a JSON body, or a byte of one
T(t, c) == [t |-> t, v |-> 0, c |-> c]
CR == B("CR", 0)
NL == B("NL", 0)

Take(s, n) == SubSeq(s, 1, n)
Drop(s, n) == SubSeq(s, n + 1, Len(s))

HasNL(s) == \E i \in 1..Len(s) : s[i] = NL
\* chunk.indexOf(0x0a), counted over the accumulated chunks
FirstNL(s) == CHOOSE i \in 1..Len(s) : s[i] = NL /\ \A j \in 1..(i - 1) : s[j] # NL

-----------------------------------------------------------------------------
(* State.                                                                  *)

VARIABLES
  frames,            \* the frames the client sends before it closes the stream
  pos,               \* how many of them have reached the Readable
  buf,               \* Readable: state.buffer (state.length = Len(buf))
  ended,             \* Readable: state.ended (push(null) was received)
  endEmitted,        \* Readable: state.endEmitted (stream.readableEnded)
  needReadable,      \* Readable: state.needReadable
  emittedReadable,   \* Readable: state.emittedReadable
  readableListening, \* Readable: state.readableListening
  unshiftErr,        \* Readable: unshift() was called after 'end' (stream error)
  tq,                \* the process.nextTick queue
  rkind,             \* the reader whose listeners are attached: line, bytes, drain
  chunks,            \* that reader's chunks, concatenated (total = Len(chunks))
  need,              \* readBytes: len
  res,               \* the settled reader promise awaited by the transport
  pc,                \* where the one async chain (run or the test's reads) waits
  phase,             \* the kind of the last job: "tick" or "micro"
  cl,                \* readHeaders: headers["content-length"]
  retv,              \* the value read() returned to its caller
  reads,             \* every value read() has returned, in order
  diag,              \* lines written to the diagnostic sink (stderr)
  out,               \* what was written to the protocol output, one entry per write
  shuttingDown,      \* MCPServer.shuttingDown
  cur,               \* the read() whose request's handler is suspended on file I/O
  base,              \* sandbox: the resolved workspace root
  sbUri,             \* file resource reader: the uri being read
  sbAbs,             \* sandbox read: abs
  sbPc,              \* sandbox read: idle, stat, readFile, done
  sbRes,             \* what the file resource reader returned or threw
  fsOps,             \* the file system calls made for the current read
  calls,             \* the registry methods handle() has called, in order
  tools,             \* ToolRegistry.tools (a Map, in insertion order)
  resources,         \* ResourceRegistry: the resources array and the readers Map
  prompts,           \* PromptRegistry.prompts (a Map, in insertion order)
  called,            \* what the last call of a registry method returned or threw
  sink               \* the output stream: whether its write() is synchronous, and
                     \* how many responses its destination has accepted

streamVars == <<buf, ended, endEmitted, needReadable, emittedReadable,
                readableListening, unshiftErr, tq, rkind, chunks, need, res>>

NoRes == [k |-> "none", d |-> <<>>]

\* The Readable, its tick queue and the attached reader, as one record that
\* the operators below thread through a job.
S == [buf |-> buf, ended |-> ended, endEmitted |-> endEmitted,
      needReadable |-> needReadable, emittedReadable |-> emittedReadable,
      readableListening |-> readableListening, unshiftErr |-> unshiftErr,
      tq |-> tq, rkind |-> rkind, chunks |-> chunks, need |-> need, res |-> res]

SetS(s) ==
  /\ buf' = s.buf
  /\ ended' = s.ended
  /\ endEmitted' = s.endEmitted
  /\ needReadable' = s.needReadable
  /\ emittedReadable' = s.emittedReadable
  /\ readableListening' = s.readableListening
  /\ unshiftErr' = s.unshiftErr
  /\ tq' = s.tq
  /\ rkind' = s.rkind
  /\ chunks' = s.chunks
  /\ need' = s.need
  /\ res' = s.res

-----------------------------------------------------------------------------
(* node:stream Readable, paused mode (lib/internal/streams/readable.js).   *)
(* The buffer stays below the high-water mark.                             *)

\* emitReadable(stream)
emitReadable(s) ==
  [s EXCEPT !.needReadable = FALSE,
            !.emittedReadable = TRUE,
            !.tq = IF s.emittedReadable THEN @ ELSE Append(@, "emitReadable_")]

\* endReadable(stream)
endReadable(s) ==
  IF s.endEmitted THEN s
  ELSE [s EXCEPT !.ended = TRUE, !.tq = Append(@, "endReadableNT")]

\* stream.read() with no size returns the whole buffer, or null (here <<>>).
streamReadResult(s) == s.buf

streamRead(s) ==
  LET s1 == [s EXCEPT !.emittedReadable = FALSE, !.buf = <<>>]
  IN  IF s.ended THEN endReadable(s1) ELSE [s1 EXCEPT !.needReadable = TRUE]

\* stream.read(0), called by nReadingNextTick
streamRead0(s) ==
  IF s.ended
    THEN IF s.buf = <<>> THEN endReadable(s)
         ELSE IF s.needReadable THEN emitReadable(s) ELSE s
    ELSE [s EXCEPT !.needReadable = TRUE]

\* stream.unshift(rest)
streamUnshift(s, rest) ==
  IF rest = <<>> THEN s
  ELSE IF s.endEmitted THEN [s EXCEPT !.unshiftErr = TRUE]
  ELSE LET s1 == [s EXCEPT !.buf = rest \o @]
       IN  IF s.needReadable THEN emitReadable(s1) ELSE s1

\* stream.push(chunk) by the source
streamPush(s, chunk) ==
  LET s1 == [s EXCEPT !.buf = @ \o chunk]
  IN  IF s.needReadable THEN emitReadable(s1) ELSE s1

\* stream.on('readable', fn)
streamOnReadable(s) ==
  IF ~s.endEmitted /\ ~s.readableListening
    THEN LET s1 == [s EXCEPT !.readableListening = TRUE,
                             !.needReadable = TRUE,
                             !.emittedReadable = FALSE]
         IN  IF s1.buf # <<>> THEN emitReadable(s1)
             ELSE [s1 EXCEPT !.tq = Append(@, "nReadingNextTick")]
    ELSE s

\* stream.off('readable', fn)
streamOffReadable(s) == [s EXCEPT !.tq = Append(@, "updateReadableListening")]

-----------------------------------------------------------------------------
(* readLine, readBytes, drainBody (src/util/jsonrpc.ts).                   *)

\* cleanup(), then resolve(value) or reject(err): the listeners come off and
\* the promise the transport awaits is settled.
\* faulty variant: a reader that settles with its listeners left on
resolveWith_noCleanup(s, k, d) == [s EXCEPT !.chunks = <<>>, !.res = [k |-> k, d |-> d]]

resolveWith(s, k, d) ==
  [streamOffReadable(s) EXCEPT !.rkind = "none", !.chunks = <<>>,
                               !.res = [k |-> k, d |-> d]]

\* faulty variant: tryResolve() that drops the bytes after the newline
readLine_tryResolve_noUnshift(s) ==
  resolveWith(s, "line", Take(s.chunks, FirstNL(s.chunks)))

\* readLine: tryResolve() when a chunk holds a newline
readLine_tryResolve(s) ==
  LET lineLen == FirstNL(s.chunks)
      line == Take(s.chunks, lineLen)
      rest == Drop(s.chunks, lineLen)
  IN  resolveWith(streamUnshift(s, rest), "line", line)

\* readLine: the check after the read loop of onReadable
readLine_afterLoop(s) ==
  IF s.endEmitted /\ s.chunks = <<>> THEN resolveWith(s, "null", <<>>) ELSE s

\* readLine: onReadable
readLine_onReadable(s) ==
  LET chunk == streamReadResult(s)
      s1 == [streamRead(s) EXCEPT !.chunks = @ \o chunk]
  IN  IF chunk = <<>> THEN readLine_afterLoop(s1)
      ELSE IF HasNL(s1.chunks) THEN readLine_tryResolve(s1)
      ELSE readLine_afterLoop(streamRead(s1))

\* faulty variant: onEnd that leaves the promise pending
readLine_onEnd_waits(s) == s

\* readLine: onEnd
readLine_onEnd(s) ==
  IF HasNL(s.chunks) THEN readLine_tryResolve(s) ELSE resolveWith(s, "null", <<>>)

\* readLine(stream): the promise executor
readLine(s) ==
  LET s1 == [streamOnReadable(s) EXCEPT !.rkind = "line", !.chunks = <<>>]
      s2 == readLine_onReadable(s1)
  IN  IF s2.rkind = "line" /\ s2.endEmitted THEN readLine_onEnd(s2) ELSE s2

\* faulty variant: onReadable that drops the bytes after the body
readBytes_onReadable_noUnshift(s) ==
  LET chunk == streamReadResult(s)
      s1 == [streamRead(s) EXCEPT !.chunks = @ \o chunk]
  IN  IF chunk = <<>> THEN s1
      ELSE IF Len(s1.chunks) >= s1.need
        THEN resolveWith(s1, "bytes", Take(s1.chunks, s1.need))
      ELSE streamRead(s1)

\* readBytes: onReadable
readBytes_onReadable(s) ==
  LET chunk == streamReadResult(s)
      s1 == [streamRead(s) EXCEPT !.chunks = @ \o chunk]
  IN  IF chunk = <<>> THEN s1
      ELSE IF Len(s1.chunks) >= s1.need
        THEN resolveWith(streamUnshift(s1, Drop(s1.chunks, s1.need)),
                         "bytes", Take(s1.chunks, s1.need))
      ELSE streamRead(s1)

\* readBytes: onEnd
readBytes_onEnd(s) == resolveWith(s, "reject", <<>>)

\* readBytes(stream, len): the promise executor
readBytes(s, len) ==
  LET s1 == [streamOnReadable(s) EXCEPT !.rkind = "bytes", !.chunks = <<>>,
                                        !.need = len]
      s2 == readBytes_onReadable(s1)
  IN  IF s2.rkind = "bytes" /\ s2.endEmitted THEN readBytes_onEnd(s2) ELSE s2

\* drainBody(stream): stream.once("readable", resolve)
drainBody(s) == [streamOnReadable(s) EXCEPT !.rkind = "drain", !.chunks = <<>>]

\* stream.emit('readable')
emitReadableEvent(s) ==
  CASE s.rkind = "line"  -> readLine_onReadable(s)
    [] s.rkind = "bytes" -> readBytes_onReadable(s)
    [] s.rkind = "drain" -> resolveWith(s, "drained", <<>>)
    [] OTHER -> s

\* stream.emit('end')
emitEndEvent(s) ==
  CASE s.rkind = "line"  -> readLine_onEnd(s)
    [] s.rkind = "bytes" -> readBytes_onEnd(s)
    [] OTHER -> s

\* emitReadable_(stream)
emitReadable_(s) ==
  LET s1 == IF s.buf # <<>> \/ s.ended
              THEN [emitReadableEvent(s) EXCEPT !.emittedReadable = FALSE]
              ELSE s
  IN  [s1 EXCEPT !.needReadable = ~s1.ended]

\* endReadableNT(state, stream)
endReadableNT(s) ==
  IF ~s.endEmitted /\ s.buf = <<>>
    THEN emitEndEvent([s EXCEPT !.endEmitted = TRUE])
    ELSE s

\* updateReadableListening(self)
updateReadableListening(s) == [s EXCEPT !.readableListening = (s.rkind # "none")]

\* onEofChunk(stream, state): push(null) outside a _read call
onEofChunk(s) ==
  IF s.ended THEN s
  ELSE emitReadable_([s EXCEPT !.ended = TRUE, !.needReadable = FALSE,
                               !.emittedReadable = TRUE])

-----------------------------------------------------------------------------
(* Frames on the wire and their decoding.                                  *)

\* JSON.stringify of the request record number m of the client's repertoire:
\* two bytes, so that a body can arrive split.
Encode(m) == <<B("{", m), B("}", 0)>>

Undef == [k |-> "undef", v |-> 0]
\* the request the catch branch of read() builds
ParseErrorSentinel == [k |-> "sentinel", v |-> 0]

\* Strings and their UTF-8 bytes.  A character of a string is a piece of
\* text; Ch(c) is a character of a text member, which takes two bytes when
\* c is in MultiByte and one byte otherwise; every other piece is ASCII and
\* is its own single byte.
Ch(c) == T("char", c)
MultiByte == {"e-acute"}
ReplacementChar == Ch("U+FFFD")

utf8_char(ch) ==
  IF ch.t # "char" THEN <<ch>>
  ELSE IF ch.c \in MultiByte THEN <<T("hi", ch.c), T("lo", ch.c)>>
  ELSE <<T("ch", ch.c)>>

\* the bytes output.write(s) writes for the string s
RECURSIVE utf8(_)
utf8(str) == IF str = <<>> THEN <<>> ELSE utf8_char(Head(str)) \o utf8(Tail(str))

\* faulty variant: s.length, the number of characters
byteLength_chars(str) == Len(str)

\* Buffer.byteLength(s, "utf8")
byteLength(str) == Len(utf8(str))

\* buf.toString("utf8"): a two-byte sequence gives its character, a byte
\* of one left alone gives U+FFFD
RECURSIVE toString(_)
toString(bytes) ==
  IF bytes = <<>> THEN <<>>
  ELSE IF Head(bytes).t = "hi"
    THEN IF Len(bytes) >= 2 /\ bytes[2] = T("lo", Head(bytes).c)
           THEN <<Ch(Head(bytes).c)>> \o toString(Drop(bytes, 2))
           ELSE <<ReplacementChar>> \o toString(Tail(bytes))
  ELSE IF Head(bytes).t = "lo" THEN <<ReplacementChar>> \o toString(Tail(bytes))
  ELSE IF Head(bytes).t = "ch" THEN <<Ch(Head(bytes).c)>> \o toString(Tail(bytes))
  ELSE <<Head(bytes)>> \o toString(Tail(bytes))

\* faulty variant: a serializer that leaves out null members too
OmittedValues_withNull == {"undefined", "null"}

\* the member values JSON.stringify leaves out of an object
OmittedValues == {"undefined"}

\* JSON.stringify of a response: the brace, the id, the result or error
\* member with its code, isError when set, the text, the closing brace; a
\* result member whose value is undefined is left out
stringify(obj) ==
  IF obj.kind = "result" /\ obj.text \in OmittedValues
    THEN <<B("{r", obj.read), T("id", obj.id), B("}", 0)>>
    ELSE <<B("{r", obj.read), T("id", obj.id), B(obj.kind, obj.code),
           B(IF obj.isError THEN "isError" ELSE "noError", 0),
           Ch(obj.text), B("}", 0)>>

\* JSON.parse(buf.toString("utf8")) inside the try of read(): an object (a
\* request of Msgs, or a response), a bare literal (B("lit", n) is the JSON
\* text of the number n), or a throw, which the catch turns into the
\* sentinel.
JSONparse(body) ==
  LET str == toString(body)
  IN  IF Len(str) = 2 /\ str[1].t = "{" /\ str[2] = B("}", 0)
        THEN [k |-> "msg", v |-> str[1].v]
      ELSE IF Len(str) = 1 /\ str[1].t = "lit"
        THEN [k |-> "lit", v |-> str[1].v]
      ELSE IF /\ Len(str) = 6
              /\ str[1].t = "{r"
              /\ str[2].t = "id"
              /\ str[3].t \in {"result", "error"}
              /\ str[4].t \in {"isError", "noError"}
              /\ str[5].t = "char"
              /\ str[6] = B("}", 0)
        THEN [k |-> "resp", v |-> 0,
              r |-> [id |-> str[2].c, kind |-> str[3].t, code |-> str[3].v,
                     text |-> str[5].c, read |-> str[1].v,
                     isError |-> (str[4].t = "isError")]]
      ELSE IF /\ Len(str) = 3
              /\ str[1].t = "{r"
              /\ str[2].t = "id"
              /\ str[3] = B("}", 0)
        THEN [k |-> "resp", v |-> 0,
              r |-> [id |-> str[2].c, kind |-> "none", code |-> 0,
                     text |-> "undefined", read |-> str[1].v, isError |-> FALSE]]
      ELSE ParseErrorSentinel

\* faulty variant: header names compared as they are written
toLowerCase_asWritten(name) == name

\* s.slice(0, idx).trim().toLowerCase() of a header line whose first byte is
\* a header name (the name's text ends at the colon)
toLowerCase(name) ==
  CASE name = "Content-Length:" -> "content-length:"
    [] name = "CONTENT-LENGTH:" -> "content-length:"
    [] OTHER -> name

HeaderNames == {"Content-Length:", "CONTENT-LENGTH:", "content-length:", "X-Other:"}

\* s.indexOf(":") !== -1
HasColon(line) == \E i \in 1..Len(line) : line[i].t \in HeaderNames

IsSpace(b) == b = CR \/ b = NL

\* s.slice(idx + 1).trim()
HeaderValue(line) == SelectSeq(Drop(line, 1), LAMBDA b : ~IsSpace(b))

\* readHeaders: the loop body for a line that is not "\r\n"; returns the new
\* headers["content-length"]
readHeaders_line(line, old) ==
  IF HasColon(line) /\ line[1].t \in HeaderNames
       /\ toLowerCase(line[1].t) = "content-length:"
    THEN HeaderValue(line)
    ELSE old

\* lenStr ? parseInt(lenStr, 10) : NaN, with Number.isFinite(len) && len > 0
IsValidLength(lenStr) ==
  /\ lenStr # <<>>
  /\ lenStr[1].t = "int"
  /\ lenStr[1].v > 0

parseInt(lenStr) == lenStr[1].v

Header(name, val) == <<B(name, 0)>> \o val \o <<CR, NL>>
Frame(name, val, body) == Header(name, val) \o <<CR, NL>> \o body

\* frame(obj) of the tests
GoodFrame(m) == Frame("Content-Length:", <<B("int", 2)>>, Encode(m))

RECURSIVE Concat(_)
Concat(ss) == IF ss = <<>> THEN <<>> ELSE Head(ss) \o Concat(Tail(ss))

\* the bytes of the whole input
Input == Concat([i \in 1..Len(frames) |-> frames[i].bytes])

vars == <<frames, pos, buf, ended, endEmitted, needReadable, emittedReadable,
          readableListening, unshiftErr, tq, rkind, chunks, need, res, pc,
          phase, cl, retv, reads, diag, out, shuttingDown, cur,
          base, sbUri, sbAbs, sbPc, sbRes, fsOps,
          calls, tools, resources, prompts, called, sink>>

sandboxVars == <<base, sbUri, sbAbs, sbPc, sbRes, fsOps>>

serverVars == <<out, shuttingDown, cur, calls, sink>>

registryVars == <<tools, resources, prompts, called>>

-----------------------------------------------------------------------------
(* The job queues.                                                         *)

\* a promise continuation of the async chain is ready to run
MicroRunnable ==
  \/ pc \in {"line", "bytes", "drain"} /\ res.k # "none"
  \/ pc = "ret"

TickTurn == tq # <<>> /\ (phase = "tick" \/ ~MicroRunnable)
MicroTurn == MicroRunnable /\ (phase = "micro" \/ tq = <<>>)
\* nothing left to run before the event loop takes the next macrotask
Idle == tq = <<>> /\ ~MicroRunnable

-----------------------------------------------------------------------------
(* The input source.                                                       *)

\* The source pushes the next k bytes as one chunk and, when fin, the end of
\* the stream in the same macrotask (input.write(..); input.end()).
EnvPush(k, fin) ==
  /\ Idle
  /\ ~ended
  /\ pos + k <= Len(Input)
  /\ fin => pos + k = Len(Input)
  /\ k > 0 \/ fin
  /\ LET s1 == IF k > 0 THEN streamPush(S, SubSeq(Input, pos + 1, pos + k)) ELSE S
     IN  SetS(IF fin THEN onEofChunk(s1) ELSE s1)
  /\ pos' = pos + k
  /\ phase' = "tick"
  /\ UNCHANGED <<frames, pc, cl, retv, reads, diag, serverVars, sandboxVars, registryVars>>

-----------------------------------------------------------------------------
(* process.nextTick callbacks.                                             *)

Tick(name, s) ==
  /\ TickTurn
  /\ Head(tq) = name
  /\ SetS(s)
  /\ phase' = "tick"
  /\ UNCHANGED <<frames, pos, pc, cl, retv, reads, diag, serverVars, sandboxVars, registryVars>>

Popped == [S EXCEPT !.tq = Tail(@)]

TickEmitReadable == Tick("emitReadable_", emitReadable_(Popped))
TickEndReadable == Tick("endReadableNT", endReadableNT(Popped))
TickUpdateListening == Tick("updateReadableListening", updateReadableListening(Popped))
TickReadZero == Tick("nReadingNextTick", streamRead0(Popped))

-----------------------------------------------------------------------------
(* FramedJSONRPC.read (src/util/jsonrpc.ts), one action per await.         *)

Awaited == [S EXCEPT !.res = NoRes]

\* The two sinks: the protocol output (this.output) and the diagnostic
\* sink (process.stderr).
Sinks == [out |-> out, err |-> diag]
SetSinks(io) == out' = io.out /\ diag' = io.err

NoObj == [id |-> "", kind |-> "", code |-> 0, text |-> "", read |-> 0, isError |-> FALSE]

\* faulty variant: diagnostics written to the protocol output
logErr_toOutput(sinks, line) ==
  [sinks EXCEPT !.out = Append(@, [part |-> "diag", obj |-> NoObj,
                                   bytes |-> <<T("diag", line)>>])]

\* logErr: process.stderr.write(msg + "\n")
logErr(sinks, line) == [sinks EXCEPT !.err = Append(@, line)]

\* read() returns v to its caller
ReadReturns(v) ==
  /\ pc' = "ret"
  /\ retv' = v
  /\ reads' = Append(reads, v)

\* readHeaders: the continuation of `await readLine(stream)`; when the header
\* block is complete, read() goes on to drainBody or readBytes.
ReadHeadersStep ==
  /\ MicroTurn
  /\ pc = "line"
  /\ phase' = "micro"
  /\ IF res.k = "null"
       THEN /\ ReadReturns(Undef)
            /\ SetS(Awaited)
            /\ UNCHANGED <<cl, out, diag>>
     ELSE IF res.d # <<CR, NL>>
       THEN /\ cl' = readHeaders_line(res.d, cl)
            /\ SetS(readLine(Awaited))
            /\ UNCHANGED <<pc, retv, reads, out, diag>>
     ELSE IF ~IsValidLength(cl)
       THEN /\ SetSinks(logErr(Sinks, "Invalid Content-Length:"))
            /\ SetS(drainBody(Awaited))
            /\ pc' = "drain"
            /\ UNCHANGED <<cl, retv, reads>>
     ELSE /\ SetS(readBytes(Awaited, parseInt(cl)))
          /\ pc' = "bytes"
          /\ UNCHANGED <<cl, retv, reads, out, diag>>
  /\ UNCHANGED <<frames, pos, shuttingDown, cur, calls, sink, sandboxVars, registryVars>>

\* read(): the continuation of `await drainBody(this.input)`
ReadAfterDrain ==
  /\ MicroTurn
  /\ pc = "drain"
  /\ phase' = "micro"
  /\ ReadReturns(Undef)
  /\ SetS(Awaited)
  /\ UNCHANGED <<frames, pos, cl, diag, serverVars, sandboxVars, registryVars>>

\* read(): the continuation of `await readBytes(this.input, len)`; a rejected
\* readBytes makes read() reject, and so its caller
ReadAfterBytes ==
  /\ MicroTurn
  /\ pc = "bytes"
  /\ phase' = "micro"
  /\ SetS(Awaited)
  /\ IF res.k = "reject"
       THEN /\ pc' = "thrown"
            /\ UNCHANGED <<retv, reads, out, diag>>
       ELSE /\ ReadReturns(JSONparse(res.d))
            /\ SetSinks(IF JSONparse(res.d) = ParseErrorSentinel
                          THEN logErr(Sinks, "JSON parse error:") ELSE Sinks)
  /\ UNCHANGED <<frames, pos, cl, shuttingDown, cur, calls, sink, sandboxVars, registryVars>>

\* the call of read(): readHeaders starts with an empty header table
CallRead(s) ==
  /\ cl' = <<>>
  /\ SetS(readLine(s))
  /\ pc' = "line"

-----------------------------------------------------------------------------
(* The client's repertoire of frames.                                      *)

FGood(m) == [kind |-> "good", m |-> m, bytes |-> GoodFrame(m)]
\* "Content-Length: -5\r\n\r\nhello" and "Content-Length: nope\r\n\r\n{}" of
\* jsonrpc-bad-length.test.ts, a zero length, and a block with no length
FBadLen(name, val, body) ==
  [kind |-> "badlen", m |-> 0, bytes |-> Frame(name, val, body)]
FNegative == FBadLen("Content-Length:", <<B("int", 0 - 5)>>, <<B("junk", 0)>>)
FNope == FBadLen("Content-Length:", <<B("nope", 0)>>, Encode(1))
FZero == FBadLen("Content-Length:", <<B("int", 0)>>, <<>>)
FAbsent == FBadLen("X-Other:", <<B("nope", 0)>>, <<>>)
\* "Content-Length: 5\r\n\r\n{oops" of jsonrpc-framing.test.ts
FBadJson ==
  [kind |-> "badjson", m |-> 0,
   bytes |-> Frame("Content-Length:", <<B("int", 2)>>, <<B("{", 1), B("junk", 0)>>)]
\* a body that is the JSON text of a number
FLit(n) ==
  [kind |-> "lit", m |-> n, bytes |-> Frame("Content-Length:", <<B("int", 1)>>, <<B("lit", n)>>)]

SeqsUpTo(K, n) == UNION {[1..k -> K] : k \in 0..n}

NoCall == [op |-> "none", res |-> <<>>]

\* no registry has been constructed
NoRegistries ==
  /\ tools = <<>>
  /\ resources = [resources |-> <<>>, readers |-> <<>>]
  /\ prompts = <<>>
  /\ called = NoCall

\* process.stdout, whose write() returns when the data is written (a file,
\* or a pipe or terminal on POSIX)
SyncOutput == [sync |-> TRUE, accepted |-> 0]
\* a stream whose write() queues the data and returns (opts.outStream: a
\* PassThrough, a socket)
AsyncOutput == [sync |-> FALSE, accepted |-> 0]

InitStreams ==
  /\ pos = 0
  /\ buf = <<>>
  /\ ended = FALSE
  /\ endEmitted = FALSE
  /\ needReadable = FALSE
  /\ emittedReadable = FALSE
  /\ readableListening = FALSE
  /\ unshiftErr = FALSE
  /\ tq = <<>>
  /\ rkind = "none"
  /\ chunks = <<>>
  /\ need = 0
  /\ res = NoRes
  /\ pc = "init"
  /\ phase = "tick"
  /\ cl = <<>>
  /\ retv = Undef
  /\ reads = <<>>
  /\ diag = <<>>
  /\ out = <<>>
  /\ shuttingDown = FALSE
  /\ cur = 0
  /\ calls = <<>>
  /\ base = <<"/">>
  /\ sbUri = <<>>
  /\ sbAbs = <<>>
  /\ sbPc = "idle"
  /\ sbRes = [k |-> "none", text |-> <<>>]
  /\ fsOps = <<>>

InitCommon ==
  /\ sink = SyncOutput
  /\ InitStreams

-----------------------------------------------------------------------------
(* A test that reads frames off a transport (jsonrpc-framing.test.ts,      *)
(* jsonrpc-bad-length.test.ts): `await rpc.read()` until the end of the    *)
(* stream is reported, with or without other work between two reads.       *)

TFrameKinds == {FGood(1), FGood(2), FLit(0), FNegative, FZero, FBadJson}

InitT ==
  /\ frames \in SeqsUpTo(TFrameKinds, MaxFrames)
  /\ InitCommon
  /\ NoRegistries

\* the first rpc.read(), called from the main script (ph = "tick") or from
\* an async test body (ph = "micro")
DriverStart(ph) ==
  /\ pc = "init"
  /\ Idle
  /\ CallRead(S)
  /\ phase' = ph
  /\ UNCHANGED <<frames, pos, retv, reads, diag, serverVars, sandboxVars, registryVars>>

DriverStep(pause) ==
  /\ MicroTurn
  /\ pc = "ret"
  /\ phase' = "micro"
  /\ IF retv = Undef
       THEN pc' = "done" /\ UNCHANGED <<streamVars, cl>>
     ELSE IF pause
       THEN pc' = "pause" /\ UNCHANGED <<streamVars, cl>>
     ELSE CallRead(S)
  /\ UNCHANGED <<frames, pos, retv, reads, diag, serverVars, sandboxVars, registryVars>>

\* the other work is over (a timer, I/O): the next rpc.read()
DriverResume ==
  /\ pc = "pause"
  /\ Idle
  /\ CallRead(S)
  /\ phase' = "micro"
  /\ UNCHANGED <<frames, pos, retv, reads, diag, serverVars, sandboxVars, registryVars>>

Transport ==
  \/ \E k \in 0..Len(Input), fin \in BOOLEAN : EnvPush(k, fin)
  \/ TickEmitReadable
  \/ TickEndReadable
  \/ TickUpdateListening
  \/ TickReadZero
  \/ ReadHeadersStep
  \/ ReadAfterDrain
  \/ ReadAfterBytes

NextT ==
  \/ Transport
  \/ \E ph \in {"tick", "micro"} : DriverStart(ph)
  \/ \E pause \in BOOLEAN : DriverStep(pause)
  \/ DriverResume

SpecT == InitT /\ [][NextT]_vars

\* Frames whose header block has the name in capitals, or another header
\* before or after Content-Length (its value a number, or text).
FHeaders(lines) == [kind |-> "good", m |-> 1, bytes |-> lines \o <<CR, NL>> \o Encode(1)]
FCapitals == FHeaders(Header("CONTENT-LENGTH:", <<B("int", 2)>>))
FOtherBefore ==
  FHeaders(Header("X-Other:", <<B("int", 1)>>) \o Header("Content-Length:", <<B("int", 2)>>))
FOtherAfter ==
  FHeaders(Header("Content-Length:", <<B("int", 2)>>) \o Header("X-Other:", <<B("nope", 0)>>))

HdrFrameKinds == {FGood(1), FCapitals, FOtherBefore, FOtherAfter, FAbsent}

InitHdr ==
  /\ frames \in SeqsUpTo(HdrFrameKinds, MaxFrames)
  /\ InitCommon
  /\ NoRegistries

SpecHdr == InitHdr /\ [][NextT]_vars

\* A caller that goes on reading after an empty result ("the caller will
\* issue another read"), over inputs that may be cut short: a body with a
\* byte missing, a header block without its blank line, a header line
\* without its newline.
MaxReads == 4

FCut(kind, bytes) == [kind |-> kind, m |-> 0, bytes |-> bytes]
FCutBody ==
  FCut("cutbody", Header("Content-Length:", <<B("int", 2)>>) \o <<CR, NL, B("{", 1)>>)
FCutHeaders == FCut("cutheaders", Header("Content-Length:", <<B("int", 2)>>))
FCutLine == FCut("cutline", <<B("Content-Length:", 0), B("int", 2)>>)

PFrameKinds == {FGood(1), FNegative, FZero, FCutBody, FCutHeaders, FCutLine}

InitP ==
  /\ frames \in SeqsUpTo(PFrameKinds, MaxFrames)
  /\ InitCommon
  /\ NoRegistries

\* the caller has a result: it reads again, at once or after other work
PersistentStep(pause) ==
  /\ MicroTurn
  /\ pc = "ret"
  /\ phase' = "micro"
  /\ IF Len(reads) >= MaxReads
       THEN pc' = "done" /\ UNCHANGED <<streamVars, cl>>
     ELSE IF pause
       THEN pc' = "pause" /\ UNCHANGED <<streamVars, cl>>
     ELSE CallRead(S)
  /\ UNCHANGED <<frames, pos, retv, reads, diag, serverVars, sandboxVars, registryVars>>

NextP ==
  \/ Transport
  \/ \E ph \in {"tick", "micro"} : DriverStart(ph)
  \/ \E pause \in BOOLEAN : PersistentStep(pause)
  \/ DriverResume

SpecP == InitP /\ [][NextP]_vars

TypeOK ==
  /\ pos \in 0..Len(Input)
  /\ pc \in {"init", "line", "bytes", "drain", "ret", "pause", "handle", "done", "thrown"}
  /\ phase \in {"tick", "micro"}

-----------------------------------------------------------------------------
(* The registries (src/runtime/registry.ts).  A JavaScript Map is a        *)
(* sequence of entries in insertion order; a string that is searched or    *)
(* rewritten (a URI, a template) is a sequence of pieces of text.          *)

Map_has(m, k) == \E i \in 1..Len(m) : m[i].key = k
Map_get(m, k) == m[CHOOSE i \in 1..Len(m) : m[i].key = k].val
\* Map.prototype.set: an existing key keeps its place and gets the new value
Map_set(m, k, v) ==
  IF Map_has(m, k)
    THEN [i \in 1..Len(m) |-> IF m[i].key = k THEN [key |-> k, val |-> v] ELSE m[i]]
    ELSE Append(m, [key |-> k, val |-> v])
Map_values(m) == [i \in 1..Len(m) |-> m[i].val]

\* `Tool not found: ${name}`
ToolNotFound(name) ==
  CASE name = "nope" -> "Tool not found: nope"
    [] name = "undefined" -> "Tool not found: undefined"
    [] OTHER -> "Tool not found: ?"

\* t.handler(args, ctx): a handler returns a result naming itself, or throws
\* (handler "boom": a custom tool whose handler throws new Error("boom"))
ToolHandler(h) ==
  IF h = "boom"
    THEN [k |-> "throw", isError |-> FALSE, text |-> "boom"]
    ELSE [k |-> "return", isError |-> FALSE, text |-> h]

ToolRegistry_register(reg, def, handler) ==
  Map_set(reg, def.name, [def |-> def, handler |-> handler])

ToolRegistry_list(reg) == [i \in 1..Len(reg) |-> reg[i].val.def]

\* faulty variant: call() that throws for a missing name
ToolRegistry_call_throws(reg, name) ==
  IF ~Map_has(reg, name)
    THEN [k |-> "throw", isError |-> FALSE, text |-> ToolNotFound(name)]
    ELSE ToolHandler(Map_get(reg, name).handler)

ToolRegistry_call(reg, name) ==
  IF ~Map_has(reg, name)
    THEN [k |-> "return", isError |-> TRUE, text |-> ToolNotFound(name)]
    ELSE ToolHandler(Map_get(reg, name).handler)

NoReaders == <<>>
EmptyResources == [resources |-> <<>>, readers |-> NoReaders]

ResourceRegistry_register(reg, def, reader) ==
  [resources |-> Append(reg.resources, def),
   readers |-> Map_set(reg.readers, def.uri, reader)]

ResourceRegistry_list(reg) == reg.resources

\* uri.startsWith(prefix)
startsWith(uri, prefix) ==
  Len(uri) >= Len(prefix) /\ SubSeq(uri, 1, Len(prefix)) = prefix

\* the first element of arr whose index is in I, as <<element>>, else <<>>
First(arr, I) ==
  IF I = {} THEN <<>> ELSE <<arr[CHOOSE i \in I : \A j \in I : i <= j]>>

\* this.resources.find((r) => r.uri === uri)
findExact(arr, uri) == First(arr, {i \in 1..Len(arr) : arr[i].uri = uri})

\* this.resources.find((r) => uri.startsWith(r.uri))
findPrefix(arr, uri) == First(arr, {i \in 1..Len(arr) : startsWith(uri, arr[i].uri)})

\* faulty variant: the prefix search alone
ResourceRegistry_match_prefixOnly(reg, uri) == findPrefix(reg.resources, uri)

\* ResourceRegistry.read: match
ResourceRegistry_match(reg, uri) ==
  IF findExact(reg.resources, uri) # <<>>
    THEN findExact(reg.resources, uri)
    ELSE findPrefix(reg.resources, uri)

\* ResourceRegistry.read up to the call of the reader: the reader and the
\* uri it is called with, or the failure thrown
ResourceRegistry_read(reg, uri) ==
  LET match == ResourceRegistry_match(reg, uri)
  IN  IF match = <<>>
        THEN [k |-> "throw", text |-> "Resource not found", reader |-> "", uri |-> uri]
      ELSE IF ~Map_has(reg.readers, match[1].uri)
        THEN [k |-> "throw", text |-> "Reader missing", reader |-> "", uri |-> uri]
      ELSE [k |-> "reader", text |-> "",
            reader |-> Map_get(reg.readers, match[1].uri), uri |-> uri]

PromptRegistry_register(reg, def, template) ==
  Map_set(reg, def.name, [def |-> def, template |-> template])

PromptRegistry_list(reg) == [i \in 1..Len(reg) |-> reg[i].val.def]

\* \w: the pieces that are runs of word characters
WordPieces == {"text", "persona", "k", "constructor"}

\* the length of the longest run of word pieces of tpl that starts at i
RECURSIVE WordRun(_, _)
WordRun(tpl, i) ==
  IF i <= Len(tpl) /\ tpl[i] \in WordPieces THEN 1 + WordRun(tpl, i + 1) ELSE 0

\* the members every object inherits from Object.prototype
ObjectPrototypeKeys == {<<"constructor">>}

\* variables[k]: an own member, else an inherited one, else undefined
Member(variables, k) ==
  IF Map_has(variables, k) THEN Map_get(variables, k)
  ELSE IF k \in ObjectPrototypeKeys THEN [t |-> "function", s |-> <<>>]
  ELSE [t |-> "undefined", s |-> <<>>]

\* String(v ?? "")
StringOrEmpty(v) ==
  CASE v.t \in {"undefined", "null"} -> <<>>
    [] v.t = "function" -> <<"function Object() { [native code] }">>
    [] OTHER -> v.s

\* tpl.replace(/\{\{(\w+)\}\}/g, (_, k) => String(vars[k] ?? "")), from i on
RECURSIVE renderFrom(_, _, _)
renderFrom(tpl, i, variables) ==
  IF i > Len(tpl) THEN <<>>
  ELSE LET n == WordRun(tpl, i + 2)
       IN  IF /\ i + 1 <= Len(tpl)
              /\ tpl[i] = "{" /\ tpl[i + 1] = "{"
              /\ n >= 1
              /\ i + n + 3 <= Len(tpl)
              /\ tpl[i + n + 2] = "}" /\ tpl[i + n + 3] = "}"
             THEN StringOrEmpty(Member(variables, SubSeq(tpl, i + 2, i + n + 1)))
                    \o renderFrom(tpl, i + n + 4, variables)
             ELSE <<tpl[i]>> \o renderFrom(tpl, i + 1, variables)

renderTemplate(tpl, variables) == renderFrom(tpl, 1, variables)

PromptRegistry_get(reg, name, variables) ==
  IF ~Map_has(reg, name)
    THEN [k |-> "throw", text |-> "Prompt not found", name |-> name, content |-> <<>>]
    ELSE [k |-> "return", text |-> "", name |-> name,
          content |-> renderTemplate(Map_get(reg, name).template, variables)]

-----------------------------------------------------------------------------
(* MCPServer (src/server.ts).                                              *)

\* The requests a client may send.  id is "absent" for a notification, else
\* the identifier: n0, n1, n2 are the numbers 0, 1, 2 and "s" is the empty
\* string.  arg is params.name, "absent" when not given; uri is params.uri,
\* empty when not given.
Req(id, method, arg, uri) == [id |-> id, method |-> method, arg |-> arg, uri |-> uri]

Msgs == <<
  Req("n1",     "initialize",     "absent", <<>>),
  Req("n0",     "shutdown",       "absent", <<>>),
  Req("absent", "tools/list",     "absent", <<>>),
  Req("s",      "resources/read", "absent", <<"file:///", "a.txt">>),
  Req("n2",     "unknown/method", "absent", <<>>),
  Req("n1",     "tools/call",     "nope",   <<>>),
  Req("n2",     "tools/call",     "boom",   <<>>),
  Req("s",      "tools/call",     "absent", <<>>),
  Req("n0",     "tools/call",     "ping",   <<>>),
  Req("n1",     "resources/read", "absent", <<>>),
  Req("n2",     "resources/read", "absent", <<"other:///", "x">>),
  Req("n1",     "prompts/get",    "absent", <<>>),
  Req("n2",     "prompts/get",    "missing", <<>>),
  Req("n0",     "prompts/get",    "summarize", <<>>),
  Req("n1",     "__internal_parse_error__", "absent", <<>>),
  Req("absent", "shutdown",       "absent", <<>>) >>

\* what JSON.parse of a bare number gives run(): no id, no method
LitReq == Req("absent", "absent", "absent", <<>>)

\* the request built by the catch branch of read()
SentinelReq == Req("null", "__internal_parse_error__", "absent", <<>>)

\* the request record behind a value returned by read()
ReqOf(v) ==
  IF v.k = "msg" THEN Msgs[v.v]
  ELSE IF v = ParseErrorSentinel THEN SentinelReq
  ELSE LitReq

\* faulty variant: a loop that lets the sentinel through to handle()
IsParseError_never(v) == FALSE

\* (msg as any)?.method === "__internal_parse_error__"
IsParseError(v) == ReqOf(v).method = "__internal_parse_error__"

\* !msg in run(): undefined, or a JSON value that is falsy (the number 0)
Falsy(v) == v = Undef \/ (v.k = "lit" /\ v.v = 0)

\* const id = req.id ?? null
idOrNull(req) == IF req.id = "absent" THEN "null" ELSE req.id


\* A response record; read is the number of the read() whose message it
\* answers.
Response(id, kind, code, text, r) ==
  [id |-> id, kind |-> kind, code |-> code, text |-> text, read |-> r,
   isError |-> FALSE]

\* a response whose result is a ToolResult with isError: true
ToolErrorResponse(id, text, r) ==
  [Response(id, "result", 0, text, r) EXCEPT !.isError = TRUE]

\* FramedJSONRPC.write: output.write(h); output.write(s)
FramedJSONRPC_write(o, obj) ==
  LET str == stringify(obj)
      h == Header("Content-Length:", <<B("int", byteLength(str))>>) \o <<CR, NL>>
  IN  o \o <<[part |-> "header", obj |-> NoObj, bytes |-> h],
             [part |-> "body", obj |-> obj, bytes |-> utf8(str)]>>

\* MCPServer.send
send(o, id, text, r) == FramedJSONRPC_write(o, Response(id, "result", 0, text, r))

\* faulty variant: an error that is logged and not written
sendError_silent(o, id, code, text, r) == o

\* MCPServer.sendError
sendError(o, id, code, text, r) ==
  FramedJSONRPC_write(o, Response(id, "error", code, text, r))

\* The registries after the constructor: registerBuiltInTools,
\* registerFileResources, registerPrompts, then opts.tools, which here adds
\* a tool whose handler throws.
Def(name, n) == [name |-> name, n |-> n]
UriDef(uri, n) == [uri |-> uri, n |-> n]

ServerTools ==
  LET t1 == ToolRegistry_register(<<>>, Def("ping", 1), "ping")
      t2 == ToolRegistry_register(t1, Def("echo", 1), "echo")
      t3 == ToolRegistry_register(t2, Def("time", 1), "time")
  IN  ToolRegistry_register(t3, Def("boom", 1), "boom")

ServerResources ==
  ResourceRegistry_register(EmptyResources, UriDef(<<"file:///">>, 1), "file")

ServerPrompts ==
  LET p1 == PromptRegistry_register(<<>>, Def("summarize", 1),
              <<"Summarize ", "{", "{", "text", "}", "}", " Return">>)
  IN  PromptRegistry_register(p1, Def("system-instructions", 1),
              <<"Persona: ", "{", "{", "persona", "}", "}">>)

\* String(name) of params.name
StringOf(arg) == IF arg = "absent" THEN "undefined" ELSE arg

\* the methods whose case in handle() sends a result without awaiting
ListResults ==
  [m \in {"initialize", "tools/list", "resources/list", "prompts/list"} |->
     CASE m = "initialize" -> "initialize"
       [] m = "tools/list" -> "tools"
       [] m = "resources/list" -> "resources"
       [] OTHER -> "prompts"]

\* faulty variant: !uri left out
MissingUri_never(req) == FALSE

\* !uri and !name for the params of req
MissingUri(req) == req.uri = <<>>
MissingName(req) == req.arg = "absent"

\* handle(req) suspends on file I/O: resources/read of a uri for which the
\* registry finds a reader
Suspends(req) ==
  /\ req.method = "resources/read"
  /\ ~MissingUri(req)
  /\ ResourceRegistry_read(resources, req.uri).k = "reader"

Sent(text, isError) == [k |-> "send", text |-> text, isError |-> isError]

\* faulty variant: a catch that drops the failure's message
Thrown_noMessage(text) == [k |-> "throw", text |-> "Server error", isError |-> FALSE]

\* a failure thrown in the try block, with its message
Thrown(text) == [k |-> "throw", text |-> text, isError |-> FALSE]

\* handle(req): what the try block does for a request that completes
\* without I/O: it sends a result, throws, or reaches the default case.  The
\* awaits of tools/call settle in promise jobs, which run before any other
\* job.
handle_try(req) ==
  CASE req.method \in DOMAIN ListResults -> Sent(ListResults[req.method], FALSE)
    [] req.method = "shutdown" -> Sent("null", FALSE)
    [] req.method = "tools/call" ->
         LET toolRes == ToolRegistry_call(tools, StringOf(req.arg))
         IN  IF toolRes.k = "throw" THEN Thrown(toolRes.text)
             ELSE Sent(toolRes.text, toolRes.isError)
    [] req.method = "resources/read" ->
         IF MissingUri(req) THEN Thrown("uri required")
         ELSE Thrown(ResourceRegistry_read(resources, req.uri).text)
    [] req.method = "prompts/get" ->
         IF MissingName(req) THEN Thrown("name required")
         ELSE LET p == PromptRegistry_get(prompts, req.arg, <<>>)
              IN  IF p.k = "throw" THEN Thrown(p.text) ELSE Sent("prompt", FALSE)
    [] OTHER -> [k |-> "default", text |-> "", isError |-> FALSE]

\* handle(req) for the requests that complete without I/O: the output after
\* it; r is the number of the read() that returned req
handle_out(o, req, r) ==
  LET id == idOrNull(req)
      h == handle_try(req)
  IN  CASE h.k = "send" /\ h.isError ->
             FramedJSONRPC_write(o, ToolErrorResponse(id, h.text, r))
        [] h.k = "send" /\ ~h.isError -> send(o, id, h.text, r)
        [] h.k = "throw" -> sendError(o, id, 0 - 32000, h.text, r)
        [] OTHER -> sendError(o, id, 0 - 32601, "Method not found", r)

\* faulty variant: a flag that a request the server cannot serve sets too
handle_shuttingDown_onUnknown(flag, req) ==
  IF req.method \in {"shutdown", "unknown/method"} THEN TRUE ELSE flag

\* faulty variant: a shutdown that counts only when it can be answered
handle_shuttingDown_needsId(flag, req) ==
  IF req.method = "shutdown" /\ req.id # "absent" THEN TRUE ELSE flag

\* handle(req): the shutdown flag after it
handle_shuttingDown(flag, req) == IF req.method = "shutdown" THEN TRUE ELSE flag

Called(reg, op, r) == [reg |-> reg, op |-> op, read |-> r]

\* handle(req): the registry methods it calls, appended to c
handle_calls(c, req, r) ==
  CASE req.method = "tools/list" -> Append(c, Called("tools", "list", r))
    [] req.method = "resources/list" -> Append(c, Called("resources", "list", r))
    [] req.method = "prompts/list" -> Append(c, Called("prompts", "list", r))
    [] req.method = "tools/call" ->
         IF Map_has(tools, StringOf(req.arg))
           THEN c \o <<Called("tools", "call", r), Called("tools", "handler", r)>>
           ELSE Append(c, Called("tools", "call", r))
    [] req.method = "resources/read" /\ ~MissingUri(req) ->
         IF ResourceRegistry_read(resources, req.uri).k = "reader"
           THEN c \o <<Called("resources", "read", r), Called("resources", "reader", r)>>
           ELSE Append(c, Called("resources", "read", r))
    [] req.method = "prompts/get" /\ ~MissingName(req) ->
         IF Map_has(prompts, req.arg)
           THEN c \o <<Called("prompts", "get", r), Called("prompts", "template", r)>>
           ELSE Append(c, Called("prompts", "get", r))
    [] OTHER -> c

\* the three registries of the server
Registries == [tools |-> tools, resources |-> resources, prompts |-> prompts]
SetRegistries(regs) ==
  /\ tools' = regs.tools
  /\ resources' = regs.resources
  /\ prompts' = regs.prompts

\* faulty variant: a tools/call that registers the name it is called with
handle_registries_registers(regs, req) ==
  IF req.method = "tools/call"
    THEN [regs EXCEPT !.tools = ToolRegistry_register(@, Def(StringOf(req.arg), 2), "ping")]
    ELSE regs

\* handle(req): the registries after it.  handle() calls list, call, read
\* and get, none of which assigns to a field of its registry.
handle_registries(regs, req) == regs

\* handle(req) for the requests that complete without I/O: the response,
\* then logErr("Handler error:", ...) in the catch
\* faulty variant: a dispatcher that refuses every method but initialize
\* until an initialize has been dispatched
handle_io_afterInitialize(sinks, req, r) ==
  IF req.method = "initialize" \/ \E i \in 1..(r - 1) : reads[i] = [k |-> "msg", v |-> 1]
    THEN LET io == [sinks EXCEPT !.out = handle_out(@, req, r)]
         IN  IF handle_try(req).k = "throw" THEN logErr(io, "Handler error:") ELSE io
    ELSE [sinks EXCEPT !.out = sendError(@, idOrNull(req), 0 - 32002, "Not initialized", r)]

handle_io(sinks, req, r) ==
  LET io == [sinks EXCEPT !.out = handle_out(@, req, r)]
  IN  IF handle_try(req).k = "throw" THEN logErr(io, "Handler error:") ELSE io

\* faulty variant: a loop that never looks at the shutdown flag
AfterHandle_noBreak(flag) == CallRead(S)

\* the loop after `await this.handle(msg)`: break when shutting down, else
\* the next read()
AfterHandle(flag) ==
  IF flag
    THEN pc' = "done" /\ UNCHANGED <<streamVars, cl>>
    ELSE CallRead(S)

\* faulty variant: handle() called without await: run() goes on to the next read()
AwaitHandle_notAwaited == CallRead(S)

\* `await this.handle(msg)` while handle() is suspended: run() waits
AwaitHandle ==
  /\ pc' = "handle"
  /\ UNCHANGED <<streamVars, cl>>

\* run(): the first read()
ServerStart(ph) ==
  /\ pc = "init"
  /\ Idle
  /\ CallRead(S)
  /\ phase' = ph
  /\ UNCHANGED <<frames, pos, retv, reads, diag, serverVars, sandboxVars, registryVars>>

\* run(): the continuation of `await this.rpc.read()`, up to the next await
RunStep ==
  /\ MicroTurn
  /\ pc = "ret"
  /\ phase' = "micro"
  /\ IF Falsy(retv)
       THEN /\ pc' = "done"
            /\ UNCHANGED <<streamVars, cl, serverVars, diag, tools, resources, prompts>>
     ELSE IF IsParseError(retv)
       THEN /\ out' = sendError(out, "null", 0 - 32700, "Parse error", Len(reads))
            /\ CallRead(S)
            /\ UNCHANGED <<shuttingDown, cur, calls, diag, tools, resources, prompts>>
     ELSE IF Suspends(ReqOf(retv))
       THEN /\ cur' = Len(reads)
            /\ calls' = handle_calls(calls, ReqOf(retv), Len(reads))
            /\ SetRegistries(handle_registries(Registries, ReqOf(retv)))
            /\ AwaitHandle
            /\ UNCHANGED <<out, shuttingDown, diag>>
     ELSE /\ SetSinks(handle_io(Sinks, ReqOf(retv), Len(reads)))
          /\ shuttingDown' = handle_shuttingDown(shuttingDown, ReqOf(retv))
          /\ calls' = handle_calls(calls, ReqOf(retv), Len(reads))
          /\ SetRegistries(handle_registries(Registries, ReqOf(retv)))
          /\ AfterHandle(shuttingDown')
          /\ UNCHANGED cur
  /\ UNCHANGED <<frames, pos, retv, reads, sandboxVars, called, sink>>

\* faulty variant: a handler that is dropped, with its response, when the
\* input has ended
HandlerDone_cancelledAtEnd(ok) ==
  /\ cur # 0
  /\ Idle
  /\ phase' = "micro"
  /\ cur' = 0
  /\ IF ended
       THEN /\ pc' = "done"
            /\ UNCHANGED <<out, diag, streamVars, cl>>
       ELSE /\ out' = send(out, idOrNull(ReqOf(reads[cur])), "resource", cur)
            /\ AfterHandle(shuttingDown)
            /\ UNCHANGED diag
  /\ UNCHANGED <<frames, pos, retv, reads, shuttingDown, calls, sink, sandboxVars, registryVars>>

\* handle(): the file I/O of a resources/read is over; the reader returned
\* (ok) or threw (path outside workspace, not a file, I/O failure)
HandlerDone(ok) ==
  /\ cur # 0
  /\ Idle
  /\ phase' = "micro"
  /\ SetSinks(
       IF ok THEN [Sinks EXCEPT !.out = send(@, idOrNull(ReqOf(reads[cur])), "resource", cur)]
       ELSE logErr([Sinks EXCEPT !.out = sendError(@, idOrNull(ReqOf(reads[cur])),
                                                    0 - 32000, "Not a file", cur)],
                   "Handler error:"))
  /\ cur' = 0
  /\ IF pc = "handle"
       THEN AfterHandle(shuttingDown)
       ELSE UNCHANGED <<pc, streamVars, cl>>
  /\ UNCHANGED <<frames, pos, retv, reads, shuttingDown, calls, sink, sandboxVars, registryVars>>

\* the constructor has run
Constructed ==
  /\ tools = ServerTools
  /\ resources = ServerResources
  /\ prompts = ServerPrompts
  /\ called = NoCall

SFrameKinds ==
  {FGood(m) : m \in 1..5} \cup {FLit(0), FLit(1), FNegative, FZero, FBadJson}

Init ==
  /\ frames \in SeqsUpTo(SFrameKinds, MaxFrames)
  /\ InitCommon
  /\ Constructed

\* The same server, sent the requests that fail or are refused.
HFrameKinds ==
  {FGood(m) : m \in {2} \cup (4..15)} \cup {FNegative, FBadJson}

InitH ==
  /\ frames \in SeqsUpTo(HFrameKinds, MaxFrames)
  /\ InitCommon
  /\ Constructed


Next ==
  \/ Transport
  \/ \E ph \in {"tick", "micro"} : ServerStart(ph)
  \/ RunStep
  \/ \E ok \in BOOLEAN : HandlerDone(ok)

Spec == Init /\ [][Next]_vars

SpecH == InitH /\ [][Next]_vars

\* The server on inputs that end inside a header block.
EFrameKinds == {FGood(1), FGood(4), FNegative, FCutHeaders, FCutLine}

InitE ==
  /\ frames \in SeqsUpTo(EFrameKinds, MaxFrames)
  /\ InitCommon
  /\ Constructed

SpecE == InitE /\ [][Next]_vars

\* The server writing to an output stream that may be slower than the loop.
\* Responses a stream holds at which its write() returns false.
OutHighWaterMark == 1

\* the responses written by rpc.write so far
Written == Cardinality({j \in 1..Len(out) : out[j].part = "body"})

\* the responses the destination of the output has taken: all of them when
\* write() returns only once the data is written
Accepted == IF sink.sync THEN Written ELSE sink.accepted

\* output.writableNeedDrain: the last write() returned false
NeedDrain == Written - Accepted >= OutHighWaterMark

\* the destination of an asynchronous output takes the next response
OutputDrain ==
  /\ ~sink.sync
  /\ Idle
  /\ sink.accepted < Written
  /\ sink' = [sink EXCEPT !.accepted = @ + 1]
  /\ UNCHANGED <<frames, pos, streamVars, pc, phase, cl, retv, reads, diag,
                 out, shuttingDown, cur, calls, sandboxVars, registryVars>>

OFrameKinds == {FGood(1), FGood(4), FGood(5), FNegative}

InitO ==
  /\ frames \in SeqsUpTo(OFrameKinds, MaxFrames)
  /\ sink \in {SyncOutput, AsyncOutput}
  /\ InitStreams
  /\ Constructed

NextO ==
  \/ Next
  \/ OutputDrain

\* Inputs with a shutdown in either form, with or without an identifier,
\* among other frames.
ShutdownFrameKinds == {FGood(2), FGood(16), FGood(3), FGood(4), FNegative, FBadJson}

InitShutdown ==
  /\ frames \in SeqsUpTo(ShutdownFrameKinds, MaxFrames)
  /\ InitCommon
  /\ Constructed

SpecShutdown == InitShutdown /\ [][Next]_vars

\* Inputs with initialize, once or twice, before and after other methods.
InitializeFrameKinds ==
  {FGood(1), FGood(3), FGood(4), FGood(5), FGood(9), FGood(14), FNegative}

InitInitialize ==
  /\ frames \in SeqsUpTo(InitializeFrameKinds, MaxFrames)
  /\ InitCommon
  /\ Constructed

SpecInitialize == InitInitialize /\ [][Next]_vars

SpecO == InitO /\ [][NextO]_vars

-----------------------------------------------------------------------------
(* Two transports back to back (jsonrpc-framing.test.ts: "reads and writes *)
(* framed messages"): what one writes is the input of the other.           *)

\* the bytes a sequence of output.write calls puts on the stream
WireBytes(o) == Concat([j \in 1..Len(o) |-> o[j].bytes])

\* the responses written: a result, an error with id null, and a result
\* whose text holds a character of two bytes
RTResponses ==
  { Response("n1", "result", 0, "ok", 0),
    Response("null", "error", 0 - 32700, "Parse error", 0),
    Response("s", "result", 0, "e-acute", 0),
    ToolErrorResponse("n0", "Tool not found: nope", 0) }

\* rpc.write(R) on the writing side
FWritten(R) ==
  [kind |-> "written", m |-> R, bytes |-> WireBytes(FramedJSONRPC_write(<<>>, R))]

InitRT ==
  /\ frames \in SeqsUpTo({FWritten(R) : R \in RTResponses}, MaxFrames)
  /\ InitCommon
  /\ NoRegistries

NextRT ==
  \/ \E k \in 0..Len(Input), fin \in BOOLEAN : EnvPush(k, fin)
  \/ TickEmitReadable
  \/ TickEndReadable
  \/ TickUpdateListening
  \/ TickReadZero
  \/ ReadHeadersStep
  \/ ReadAfterBytes
  \/ \E ph \in {"tick", "micro"} : DriverStart(ph)
  \/ \E pause \in BOOLEAN : DriverStep(pause)
  \/ DriverResume

SpecRT == InitRT /\ [][NextRT]_vars

-----------------------------------------------------------------------------
(* The sandbox (src/util/sandbox.ts) behind the file resource reader       *)
(* (src/runtime/resources.ts).  A path is a sequence of characters.        *)

\* Longest requested path, in segments.
MaxSegs == 3

sep == "/"

StartsWith(a, b) == Len(a) >= Len(b) /\ Take(a, Len(b)) = b

\* the segments of a path: the runs of characters between separators
RECURSIVE SplitFrom(_, _, _)
SplitFrom(p, i, acc) ==
  IF i > Len(p)
    THEN IF acc = <<>> THEN <<>> ELSE <<acc>>
  ELSE IF p[i] = sep
    THEN (IF acc = <<>> THEN <<>> ELSE <<acc>>) \o SplitFrom(p, i + 1, <<>>)
  ELSE SplitFrom(p, i + 1, Append(acc, p[i]))

Split(p) == SplitFrom(p, 1, <<>>)

Dot == <<".">>
DotDot == <<".", ".">>

\* node:path normalizeString on an absolute path: "." and empty segments go,
\* ".." removes the segment before it and is dropped at the root
RECURSIVE normalizeString(_, _)
normalizeString(segs, acc) ==
  IF segs = <<>> THEN acc
  ELSE IF Head(segs) = Dot THEN normalizeString(Tail(segs), acc)
  ELSE IF Head(segs) = DotDot
    THEN normalizeString(Tail(segs), IF acc = <<>> THEN acc ELSE Take(acc, Len(acc) - 1))
  ELSE normalizeString(Tail(segs), Append(acc, Head(segs)))

RECURSIVE JoinSegs(_)
JoinSegs(segs) ==
  IF segs = <<>> THEN <<>> ELSE <<sep>> \o Head(segs) \o JoinSegs(Tail(segs))

ToPath(segs) == IF segs = <<>> THEN <<sep>> ELSE JoinSegs(segs)

\* node:path resolve(b, p) for an absolute b: p alone when p is absolute,
\* else b joined with p; then normalized, without a trailing separator
resolve(b, p) ==
  IF p # <<>> /\ p[1] = sep
    THEN ToPath(normalizeString(Split(p), <<>>))
    ELSE ToPath(normalizeString(Split(b \o <<sep>> \o p), <<>>))

\* faulty variant: the containment test without the separator after the root
safeResolve_ok_noSep(b, abs) == StartsWith(abs, b) \/ abs = b

\* safeResolve: the test that lets abs through
safeResolve_ok(b, abs) == StartsWith(abs, b \o <<sep>>) \/ abs = b

\* The file system: /w is a workspace with a file a, a directory d holding a
\* file b, and a symbolic link l to /wx/s; /wx is a sibling directory.
Str(segs) == ToPath(segs)
W == <<"w">>
WX == <<"w", "x">>
FsNodes ==
  { [path |-> ToPath(<<>>),               type |-> "dir",  target |-> <<>>],
    [path |-> ToPath(<<W>>),              type |-> "dir",  target |-> <<>>],
    [path |-> ToPath(<<W, <<"a">>>>),     type |-> "file", target |-> <<>>],
    [path |-> ToPath(<<W, <<"d">>>>),     type |-> "dir",  target |-> <<>>],
    [path |-> ToPath(<<W, <<"d">>, <<"b">>>>), type |-> "file", target |-> <<>>],
    [path |-> ToPath(<<W, <<"l">>>>),     type |-> "link", target |-> ToPath(<<WX, <<"s">>>>)],
    [path |-> ToPath(<<WX>>),             type |-> "dir",  target |-> <<>>],
    [path |-> ToPath(<<WX, <<"s">>>>),    type |-> "file", target |-> <<>>] }

Exists(path) == \E n \in FsNodes : n.path = path
Node(path) == CHOOSE n \in FsNodes : n.path = path

\* the file a path names once a symbolic link is followed, as stat() and
\* readFile() do
Real(path) ==
  IF Exists(path) /\ Node(path).type = "link" THEN Node(path).target ELSE path

\* the reader registered by registerFileResources, for a uri that is not
\* "file:///": rel = uri.replace("file:///", "")
Scheme == "file:///"
RelOf(uri) == IF uri # <<>> /\ uri[1] = Scheme THEN Tail(uri) ELSE uri

SegNames == {<<"a">>, <<"d">>, <<"l">>, <<"b">>, DotDot, W, WX, <<"s">>}

RECURSIVE RelPath(_)
RelPath(segs) ==
  IF segs = <<>> THEN <<>>
  ELSE IF Len(segs) = 1 THEN Head(segs)
  ELSE Head(segs) \o <<sep>> \o RelPath(Tail(segs))

\* the paths a client may ask for: relative, or absolute
Requested ==
  LET segss == SeqsUpTo(SegNames, MaxSegs)
  IN  {RelPath(ss) : ss \in segss} \cup {<<sep>> \o RelPath(ss) : ss \in segss}

Roots == {ToPath(<<W>>), ToPath(<<W, <<"d">>>>), ToPath(<<>>)}

NoSbRes == [k |-> "none", text |-> <<>>]

InitSandbox ==
  /\ frames = <<>>
  /\ InitCommon
  /\ NoRegistries

\* createSandbox(root): base = resolve(root)
CreateSandbox(root) ==
  /\ sbPc = "idle"
  /\ base' = resolve(<<sep>>, root)
  /\ sbPc' = "ready"
  /\ UNCHANGED <<sbUri, sbAbs, sbRes, fsOps>>

\* faulty variant: a reader without the listing branch
IsListingUri_never(uri) == FALSE

\* uri === "file:///"
IsListingUri(uri) == uri = <<Scheme>>

\* what the reader returns: { uri, mimeType: "text/plain", text }
reader_return(uri, text) == [uri |-> uri, mimeType |-> "text/plain", text |-> text]

\* items.join("\n")
RECURSIVE join(_)
join(items) ==
  IF items = <<>> THEN <<>>
  ELSE IF Len(items) = 1 THEN items[1]
  ELSE items[1] \o <<"\n">> \o join(Tail(items))

\* the reader, for a uri other than "file:///", calls sandbox.read(rel):
\* safeResolve throws, or read() goes on to stat(abs)
ReaderCall(uri) ==
  /\ sbPc = "ready"
  /\ ~IsListingUri(uri)
  /\ sbUri' = uri
  /\ fsOps' = <<>>
  /\ LET abs == resolve(base, RelOf(uri))
     IN  IF safeResolve_ok(base, abs)
           THEN /\ sbAbs' = abs
                /\ sbPc' = "stat"
                /\ sbRes' = NoSbRes
           ELSE /\ sbAbs' = <<>>
                /\ sbPc' = "done"
                /\ sbRes' = [k |-> "error", text |-> <<"Path outside workspace">>]
  /\ UNCHANGED base

\* faulty variant: a test that lets directories through
isFile_orDirectory(path) == Node(Real(path)).type \in {"file", "dir"}

\* st.isFile() for the stat of an existing path
isFile(path) == Node(Real(path)).type = "file"

\* read(): stat(abs) is over
StatDone ==
  /\ sbPc = "stat"
  /\ fsOps' = Append(fsOps, [op |-> "stat", path |-> sbAbs])
  /\ IF ~Exists(Real(sbAbs))
       THEN sbPc' = "done" /\ sbRes' = [k |-> "error", text |-> <<"ENOENT">>]
     ELSE IF ~isFile(sbAbs)
       THEN sbPc' = "done" /\ sbRes' = [k |-> "error", text |-> <<"Not a file">>]
     ELSE sbPc' = "readFile" /\ UNCHANGED sbRes
  /\ UNCHANGED <<base, sbUri, sbAbs>>

\* read(): readFile(abs, "utf8") is over; read() returns { path: p, content }.
\* The text of a file is, here, the path the file really has.
ReadFileDone ==
  /\ sbPc = "readFile"
  /\ fsOps' = Append(fsOps, [op |-> "readFile", path |-> sbAbs])
  /\ sbRes' = [k |-> "ok", text |-> Real(sbAbs), path |-> RelOf(sbUri),
               ret |-> reader_return(sbUri, Real(sbAbs))]
  /\ sbPc' = "done"
  /\ UNCHANGED <<base, sbUri, sbAbs>>

\* Largest max given to list().
MaxList == 3

\* the order in which readdir yields the names of a directory, or its reverse
DirOrder == << <<"a">>, <<"d">>, <<"l">>, <<"b">>, <<"s">>, W, WX >>
Reverse(seq) == [i \in 1..Len(seq) |-> seq[Len(seq) + 1 - i]]

\* readdir(dir, { withFileTypes: true }): the entries of dir, each with the
\* type of the entry itself (a symbolic link is neither a directory nor a
\* file)
readdir(dir, rev) ==
  LET names == SelectSeq(DirOrder, LAMBDA nm : Exists(resolve(dir, nm)))
      ordered == IF rev THEN Reverse(names) ELSE names
  IN  [i \in 1..Len(ordered) |->
         [name |-> ordered[i], type |-> Node(resolve(dir, ordered[i])).type]]

\* faulty variant: the cap tested after the push of a file only
atCap_never(acc, max) == FALSE

\* A number of the program: an integer, or NaN.
Num(n) == [nan |-> FALSE, n |-> n]
NaN == [nan |-> TRUE, n |-> 0]

\* if (out.length >= max) return: a comparison with NaN is false
atCap(acc, max) == ~max.nan /\ Len(acc) >= max.n

\* walk(dir) from the entry items[1] on: out after it
RECURSIVE walk(_, _, _, _, _)
walk(dir, items, acc, max, rev) ==
  IF items = <<>> \/ atCap(acc, max) THEN acc
  ELSE LET it == Head(items)
           full == resolve(dir, it.name)
           rel == Drop(full, Len(base) + 1)
       IN  IF it.type = "dir"
             THEN walk(dir, Tail(items), walk(full, readdir(full, rev), acc, max, rev), max, rev)
           ELSE IF it.type = "file"
             THEN walk(dir, Tail(items), Append(acc, rel), max, rev)
           ELSE walk(dir, Tail(items), acc, max, rev)

\* sandbox.list(max)
list(max, rev) == walk(base, readdir(base, rev), <<>>, max, rev)

\* the reader, for the uri "file:///", calls sandbox.list(max) and returns
\* the items joined by newlines
ListCall(uri, max, rev) ==
  /\ sbPc = "ready"
  /\ IsListingUri(uri)
  /\ sbUri' = uri
  /\ sbAbs' = <<>>
  /\ fsOps' = <<[op |-> "readdir", path |-> base]>>
  /\ sbRes' = [k |-> "list", text |-> <<>>, items |-> list(Num(max), rev), max |-> max,
               ret |-> reader_return(uri, join(list(Num(max), rev)))]
  /\ sbPc' = "done"
  /\ UNCHANGED base

\* the caller has the reader's result; the sandbox serves the next read
ReaderReturn ==
  /\ sbPc = "done"
  /\ sbPc' = "ready"
  /\ sbUri' = <<>>
  /\ sbAbs' = <<>>
  /\ sbRes' = NoSbRes
  /\ fsOps' = <<>>
  /\ UNCHANGED base

transportAndServerVars ==
  <<frames, pos, buf, ended, endEmitted, needReadable, emittedReadable,
    readableListening, unshiftErr, tq, rkind, chunks, need, res, pc,
    phase, cl, retv, reads, diag, out, shuttingDown, cur, calls,
    tools, resources, prompts, called, sink>>

NextSandbox ==
  /\ \/ \E root \in Roots : CreateSandbox(root)
     \/ \E p \in Requested : ReaderCall(<<Scheme>> \o p)
     \/ StatDone
     \/ ReadFileDone
     \/ \E max \in 1..MaxList, rev \in BOOLEAN : ListCall(<<Scheme>>, max, rev)
     \/ ReaderReturn
  /\ UNCHANGED transportAndServerVars

SpecSandbox == InitSandbox /\ [][NextSandbox]_vars

\* The file resource provider: the cap it computes from the environment
\* variable EVA_MCP_MAX_LIST and the option maxList.
DefaultMaxList == 1000

EnvChars == {"-", "0", "2", "a"}
Digits == {"0", "2"}
DigitValue(c) == IF c = "0" THEN 0 ELSE 2

RECURSIVE Decimal(_)
Decimal(str) ==
  IF str = <<>> THEN 0 ELSE 10 * Decimal(SubSeq(str, 1, Len(str) - 1)) + DigitValue(str[Len(str)])

\* Number(value) of a string: 0 for the empty string, the value of an
\* optionally signed row of digits, NaN for anything else
Number(str) ==
  LET neg == str # <<>> /\ Head(str) = "-"
      digits == IF neg THEN Tail(str) ELSE str
  IN  IF str = <<>> THEN Num(0)
      ELSE IF digits = <<>> \/ \E i \in 1..Len(digits) : digits[i] \notin Digits THEN NaN
      ELSE Num(IF neg THEN 0 - Decimal(digits) ELSE Decimal(digits))

\* Math.max(a, b): NaN when either is NaN
Math_max(a, b) == IF a.nan \/ b.nan THEN NaN ELSE IF a.n >= b.n THEN a ELSE b

\* process.env.EVA_MCP_MAX_LIST and opts?.maxList, either of them absent
NoEnv == [set |-> FALSE, s |-> <<>>]
EnvValues == {NoEnv} \cup {[set |-> TRUE, s |-> str] : str \in SeqsUpTo(EnvChars, 2)}
NoOption == [set |-> FALSE, n |-> Num(0)]
OptionValues == {NoOption} \cup {[set |-> TRUE, n |-> Num(k)] : k \in {0 - 1, 0, 2}}

\* Math.max(1, Number(process.env.EVA_MCP_MAX_LIST ?? opts?.maxList ?? 1000))
registerFileResources_max(env, opt) ==
  Math_max(Num(1), IF env.set THEN Number(env.s)
                   ELSE IF opt.set THEN opt.n ELSE Num(DefaultMaxList))

\* the provider's reader, for "file:///": sandbox.list(max) with its cap
ProviderList(env, opt, rev) ==
  LET max == registerFileResources_max(env, opt)
  IN  /\ sbPc = "ready"
      /\ sbUri' = <<Scheme>>
      /\ sbAbs' = <<>>
      /\ fsOps' = <<[op |-> "readdir", path |-> base]>>
      /\ sbRes' = [k |-> "list", text |-> <<>>, items |-> list(max, rev), max |-> max,
                   ret |-> reader_return(<<Scheme>>, join(list(max, rev)))]
      /\ sbPc' = "done"
      /\ UNCHANGED base

NextProvider ==
  /\ \/ \E root \in Roots : CreateSandbox(root)
     \/ \E p \in Requested : ReaderCall(<<Scheme>> \o p)
     \/ StatDone
     \/ ReadFileDone
     \/ \E env \in EnvValues, opt \in OptionValues, rev \in BOOLEAN : ProviderList(env, opt, rev)
     \/ ReaderReturn
  /\ UNCHANGED transportAndServerVars

SpecProvider == InitSandbox /\ [][NextProvider]_vars

-----------------------------------------------------------------------------
(* The registries on their own: any sequence of register calls, each        *)
(* followed by any number of list, call, read and get calls                 *)
(* (registry.test.ts, and opts.tools / opts.resources / opts.prompts of the *)
(* constructor).                                                           *)

\* Largest number of register calls.
MaxRegs == 3

RegNames == {"a", "b"}
RegUris == {<<"m:">>, <<"m:", "x">>, <<"o:">>}
ReadUris == RegUris \cup {<<"m:", "x", "y">>, <<"z:">>}
RegTemplates == {<<"Hi">>, <<"{", "{", "k", "}", "}">>}

\* the handler or reader given to the n-th register call
HandlerOf(n) == <<"h1", "h2", "h3", "h4", "h5">>[n]

Registered(reg, op, def, item) ==
  [reg |-> reg, op |-> op, read |-> 0, def |-> def, item |-> item]

Returned(op, key, r) == [op |-> op, key |-> key, res |-> r]

InitReg ==
  /\ frames = <<>>
  /\ InitCommon
  /\ NoRegistries

CanRegister == Len(calls) < MaxRegs /\ called = NoCall

RegisterTool(name) ==
  /\ CanRegister
  /\ LET n == Len(calls) + 1
     IN  /\ tools' = ToolRegistry_register(tools, Def(name, n), HandlerOf(n))
         /\ calls' = Append(calls, Registered("tools", "register", Def(name, n), HandlerOf(n)))
  /\ UNCHANGED <<resources, prompts, called>>

RegisterResource(uri) ==
  /\ CanRegister
  /\ LET n == Len(calls) + 1
     IN  /\ resources' = ResourceRegistry_register(resources, UriDef(uri, n), HandlerOf(n))
         /\ calls' = Append(calls, Registered("resources", "register", UriDef(uri, n), HandlerOf(n)))
  /\ UNCHANGED <<tools, prompts, called>>

RegisterPrompt(name, template) ==
  /\ CanRegister
  /\ LET n == Len(calls) + 1
     IN  /\ prompts' = PromptRegistry_register(prompts, Def(name, n), template)
         /\ calls' = Append(calls, Registered("prompts", "register", Def(name, n), template))
  /\ UNCHANGED <<tools, resources, called>>

\* a call that changes no registry: its result is kept in called
Query(op, key, r) ==
  /\ called = NoCall
  /\ called' = Returned(op, key, r)
  /\ UNCHANGED <<tools, resources, prompts, calls>>

ListTools == Query("tools.list", "", ToolRegistry_list(tools))
CallTool(name) == Query("tools.call", name, ToolRegistry_call(tools, name))
ListResources == Query("resources.list", "", ResourceRegistry_list(resources))
ReadResource(uri) == Query("resources.read", uri, ResourceRegistry_read(resources, uri))
ListPrompts == Query("prompts.list", "", PromptRegistry_list(prompts))
GetPrompt(name, variables) ==
  Query("prompts.get", [name |-> name, variables |-> variables],
        PromptRegistry_get(prompts, name, variables))

\* the caller has the result
QueryReturn ==
  /\ called # NoCall
  /\ called' = NoCall
  /\ UNCHANGED <<tools, resources, prompts, calls>>

otherThanRegistryVars ==
  <<frames, pos, buf, ended, endEmitted, needReadable, emittedReadable,
    readableListening, unshiftErr, tq, rkind, chunks, need, res, pc,
    phase, cl, retv, reads, diag, out, shuttingDown, cur,
    base, sbUri, sbAbs, sbPc, sbRes, fsOps, sink>>

NextReg ==
  /\ \/ \E name \in RegNames : RegisterTool(name)
     \/ \E uri \in RegUris : RegisterResource(uri)
     \/ \E name \in RegNames, template \in RegTemplates : RegisterPrompt(name, template)
     \/ ListTools
     \/ \E name \in RegNames : CallTool(name)
     \/ ListResources
     \/ \E uri \in ReadUris : ReadResource(uri)
     \/ ListPrompts
     \/ \E name \in RegNames : GetPrompt(name, <<>>)
     \/ QueryReturn
  /\ UNCHANGED otherThanRegistryVars

SpecReg == InitReg /\ [][NextReg]_vars

-----------------------------------------------------------------------------
(* One prompt and its rendering (registry.test.ts: register, then get).    *)
(* A template is a concatenation of segments: placeholders, and single     *)
(* pieces that may build or break a placeholder where segments meet.       *)

\* Largest number of segments in a template.
MaxTpl == 3

Placeholder(id) == <<"{", "{">> \o id \o <<"}", "}">>

TplSegments ==
  { Placeholder(<<"k">>), Placeholder(<<"k", "k">>), Placeholder(<<"constructor">>),
    Placeholder(<<" ">>), <<"{">>, <<"}">>, <<"k">>, <<" ">> }

Templates == {Concat(ss) : ss \in SeqsUpTo(TplSegments, MaxTpl)}

Str1(s) == [t |-> "string", s |-> s]

\* the variables objects a caller passes: {}, {k: "v"}, {k: "{{k}}"},
\* {kk: "w", k: "v"}
VarMaps ==
  { <<>>,
    <<[key |-> <<"k">>, val |-> Str1(<<"v">>)]>>,
    <<[key |-> <<"k">>, val |-> Str1(Placeholder(<<"k">>))]>>,
    <<[key |-> <<"k", "k">>, val |-> Str1(<<"w">>)],
      [key |-> <<"k">>, val |-> Str1(<<"v">>)]>> }

InitRender ==
  /\ frames = <<>>
  /\ InitCommon
  /\ tools = <<>>
  /\ resources = EmptyResources
  /\ \E template \in Templates :
       prompts = PromptRegistry_register(<<>>, Def("p", 1), template)
  /\ called = NoCall

NextRender ==
  /\ \/ \E name \in {"p", "missing"}, variables \in VarMaps : GetPrompt(name, variables)
     \/ ListPrompts
     \/ QueryReturn
  /\ UNCHANGED otherThanRegistryVars

SpecRender == InitRender /\ [][NextRender]_vars

-----------------------------------------------------------------------------
(* Claims.                                                                 *)

WellFormed(f) == f.kind \in {"good", "lit"}
WellFormedInput == \A i \in 1..Len(frames) : WellFormed(frames[i])
\* the message a well-formed frame carries
Carried(f) == IF f.kind = "good" THEN [k |-> "msg", v |-> f.m] ELSE [k |-> "lit", v |-> f.m]

\* the input is closed and no job is left: nothing will ever run again
\* unless the caller itself is about to act
Quiescent == ended /\ Idle /\ pc \notin {"init", "pause", "handle"}

\* C1: for an input of N complete well-formed frames followed by close, the
\* first N results of read() are the N messages in arrival order, the next
\* is the end-of-stream result, no read fails, and once the stream has closed
\* and every job has run no read is left waiting, for every chunking of the
\* input and every placing of the close among the reads.
C1_FramesThenEnd ==
  WellFormedInput =>
    /\ Len(reads) <= Len(frames) + 1
    /\ \A i \in 1..Len(reads) :
         reads[i] = IF i <= Len(frames) THEN Carried(frames[i]) ELSE Undef
    /\ pc # "thrown"
    /\ ~unshiftErr
    /\ Quiescent => pc = "done" /\ Len(reads) = Len(frames) + 1

C1_Witness ==
  /\ WellFormedInput
  /\ Len(frames) = 2
  /\ pc = "done"
  /\ endEmitted
  /\ reads = <<Carried(frames[1]), Carried(frames[2]), Undef>>

\* C2: once the input stream has ended, no read() stays pending for ever:
\* when the stream is closed and no job is left to run, the caller of read()
\* is not waiting for a reader to settle.
C2_NoReadWaitsForever == Quiescent => pc \in {"done", "thrown"}

\* the response records written so far, in order
Responses ==
  LET bodies == SelectSeq(out, LAMBDA w : w.part = "body")
  IN  [j \in 1..Len(bodies) |-> bodies[j].obj]

\* the identifier a frame carries, "absent" when it carries none
FrameId(f) == IF f.kind = "good" THEN Msgs[f.m].id ELSE "absent"

IsShutdown(f) == f.kind = "good" /\ Msgs[f.m].method = "shutdown"

\* the unread bytes (buffered or still to arrive) hold a complete frame
Unread == buf \o Drop(Input, pos)
CompleteFrameRemains ==
  /\ Len(frames) > 0
  /\ Len(Unread) >= Len(frames[Len(frames)].bytes)


\* C3: once a shutdown request has been dispatched the loop has exited, the
\* shutdown frame is the last frame read, its response (result null, the
\* request's id) is the last one written, no response answers a later frame,
\* and the identifiers written are those of the id-carrying frames up to and
\* including the shutdown, in order.
C3_ShutdownEndsLoop ==
  shuttingDown =>
    LET k == Len(reads)
        rs == Responses
    IN  /\ pc = "done"
        /\ k \in 1..Len(frames)
        /\ IsShutdown(frames[k])
        /\ \A i \in 1..k : reads[i] = IF frames[i].kind = "badjson"
                                        THEN ParseErrorSentinel
                                        ELSE Carried(frames[i])
        /\ Len(rs) >= 1
        /\ rs[Len(rs)] = Response(idOrNull(Msgs[frames[k].m]), "result", 0, "null", k)
        /\ \A j \in 1..Len(rs) : rs[j].read <= k
        /\ SelectSeq([j \in 1..Len(rs) |-> rs[j].id], LAMBDA x : x # "null")
             = SelectSeq([i \in 1..k |-> FrameId(frames[i])], LAMBDA x : x # "absent")

C3_Witness ==
  /\ shuttingDown
  /\ Len(frames) = 2
  /\ IsShutdown(frames[1])
  /\ frames[2].kind = "good"
  /\ pos = Len(Input)
  /\ ended
  /\ buf = frames[2].bytes

\* C4: the loop of run() has exited only if a shutdown was dispatched or no
\* complete frame is left unread in the input.
C4_ExitOnlyAtEndOrShutdown ==
  pc = "done" => shuttingDown \/ ~CompleteFrameRemains

\* C5: when frames with an absent, non-numeric, zero or negative
\* Content-Length are followed by a well-formed request, then once the input
\* is closed and every job has run the output holds exactly one response,
\* the one that answers that request.
C5_BadLengthSkipped ==
  ( /\ Quiescent
    /\ Len(frames) >= 2
    /\ \A i \in 1..(Len(frames) - 1) : frames[i].kind = "badlen"
    /\ frames[Len(frames)].kind = "good" )
  => /\ Len(Responses) = 1
     /\ Responses[1].id = idOrNull(Msgs[frames[Len(frames)].m])

\* C6: no response answers a request that has no id.
C6_NotificationsUnanswered ==
  \A j \in 1..Len(Responses) :
     LET v == reads[Responses[j].read]
     IN  v.k = "msg" => Msgs[v.v].id # "absent"

\* C7: a response to a request that carries an id has that id, and a
\* response has id null only when it answers a frame whose body did not
\* decode.
C7_IdEchoedNullOnlyForParseError ==
  \A j \in 1..Len(Responses) :
     LET v == reads[Responses[j].read]
     IN  /\ (v.k = "msg" /\ Msgs[v.v].id # "absent") => Responses[j].id = Msgs[v.v].id
         /\ Responses[j].id = "null" => v = ParseErrorSentinel

\* the first half of C7 alone
C7_IdEchoed ==
  \A j \in 1..Len(Responses) :
     LET v == reads[Responses[j].read]
     IN  (v.k = "msg" /\ Msgs[v.v].id # "absent") => Responses[j].id = Msgs[v.v].id

\* C8: the output is a sequence of whole responses (header, then body), in
\* the order of the reads they answer; and whenever a read() is under way or
\* has just returned, no handler is still running and every message returned
\* by an earlier read() that the loop dispatched has its response written.
C8_OneRequestAtATime ==
  /\ Len(out) % 2 = 0
  /\ \A j \in 1..Len(out) : out[j].part = IF j % 2 = 1 THEN "header" ELSE "body"
  /\ \A j \in 1..Len(Responses), h \in 1..Len(Responses) :
       j < h => Responses[j].read < Responses[h].read
  /\ pc \in {"line", "bytes", "drain", "ret"} =>
       /\ cur = 0
       /\ \A i \in 1..(Len(reads) - (IF pc = "ret" THEN 1 ELSE 0)) :
            ~Falsy(reads[i]) => \E j \in 1..Len(Responses) : Responses[j].read = i

\* a handler suspended on I/O, its response was written, and the next
\* request was read and answered after it
C8_Witness ==
  /\ Len(Responses) = 2
  /\ Responses[1].text = "resource"
  /\ Responses[1].read = 1
  /\ Responses[2].read = 2
  /\ pc \in {"line", "bytes", "drain"}

\* a path lies in the tree under the root: its segments extend the root's
Inside(path, root) ==
  LET ps == Split(path)
      rs == Split(root)
  IN  /\ Len(ps) >= Len(rs)
      /\ Take(ps, Len(rs)) = rs
      /\ \A i \in 1..Len(ps) : ps[i] # DotDot /\ ps[i] # Dot

\* C9: for every root and requested path, a read either goes on with an
\* absolute path that is the root or begins with the root and a separator,
\* and so lies in the tree under the root, or fails with 'Path outside
\* workspace' having made no stat and no readFile call; every stat and
\* readFile call is on such a path.
C9_ResolveContained ==
  /\ sbPc \in {"stat", "readFile"} =>
       /\ sbAbs[1] = sep
       /\ sbAbs = base \/ StartsWith(sbAbs, base \o <<sep>>)
       /\ Inside(sbAbs, base)
  /\ sbRes = [k |-> "error", text |-> <<"Path outside workspace">>] => fsOps = <<>>
  /\ \A i \in 1..Len(fsOps) : Inside(fsOps[i].path, base)
  /\ (sbPc = "done" /\ fsOps = <<>>) =>
       sbRes = [k |-> "error", text |-> <<"Path outside workspace">>]

\* a path with .. that leaves the root and re-enters a sibling whose name
\* starts with the root's name was refused
C9_Witness ==
  /\ base = ToPath(<<W>>)
  /\ RelOf(sbUri) = RelPath(<<DotDot, WX, <<"s">>>>)
  /\ sbRes = [k |-> "error", text |-> <<"Path outside workspace">>]
  /\ fsOps = <<>>

\* C10: the text the file resource reader returns is that of a file in the
\* tree under the workspace root.
C10_NoContentFromOutside ==
  sbRes.k = "ok" => Inside(sbRes.text, base)

-----------------------------------------------------------------------------
(* Claims about the dispatcher's failures.                                 *)

\* run() has dispatched the value returned by the i-th read()
Dispatched(i) == i \in 1..Len(reads) /\ (i < Len(reads) \/ pc # "ret")

\* the responses written for the i-th read()
AnswersTo(i) == SelectSeq(Responses, LAMBDA x : x.read = i)

\* the registry methods called for the i-th read()
CallsFor(i) == SelectSeq(calls, LAMBDA c : c.read = i)

\* the i-th read() returned a request of the given method
ReadMethod(i, method) == reads[i].k = "msg" /\ Msgs[reads[i].v].method = method

\* the loop did not stop at the i-th read()
LoopWentOn(i) == ~(pc = "done" /\ Len(reads) = i)

\* the frame after the i-th, when it is a request, is answered once the
\* input is closed and every job has run
NextAnswered(i) ==
  (Quiescent /\ i < Len(frames) /\ frames[i + 1].kind = "good" /\ Len(reads) > i)
    => AnswersTo(i + 1) # <<>>

\* C11: every tools/call whose name is not registered is answered by exactly
\* one response, a result (not an error) with isError true and the text
\* "Tool not found: <name>"; ToolRegistry.call returns for a missing name.
C11_UnknownToolIsErrorResult ==
  \A i \in 1..Len(reads) :
    (Dispatched(i) /\ ReadMethod(i, "tools/call")
       /\ ~Map_has(tools, StringOf(Msgs[reads[i].v].arg)))
    => LET req == Msgs[reads[i].v]
           name == StringOf(req.arg)
       IN  /\ AnswersTo(i) = <<ToolErrorResponse(idOrNull(req), ToolNotFound(name), i)>>
           /\ AnswersTo(i)[1].kind = "result"
           /\ AnswersTo(i)[1].isError
           /\ ToolRegistry_call(tools, name).k = "return"

C11_Witness ==
  /\ Len(frames) = 2
  /\ frames[1] = FGood(6)
  /\ frames[2] = FGood(8)
  /\ pc = "done"
  /\ Len(Responses) = 2
  /\ Responses[1].text = "Tool not found: nope"
  /\ Responses[2].text = "Tool not found: undefined"

\* C12: a frame whose body has the declared length but is not JSON makes
\* read() return the sentinel; the server answers it with exactly one error
\* -32700 "Parse error" with id null, the loop does not stop there, and the
\* request in the frame that follows is answered.
C12_ParseErrorAnsweredLoopResumes ==
  \A i \in 1..Len(frames) :
    (frames[i].kind = "badjson" /\ Dispatched(i)
       /\ \A j \in 1..(i - 1) : frames[j].kind # "badlen")
    => /\ reads[i] = ParseErrorSentinel
       /\ AnswersTo(i) = <<Response("null", "error", 0 - 32700, "Parse error", i)>>
       /\ LoopWentOn(i)
       /\ NextAnswered(i)

C12_Witness ==
  /\ Len(frames) = 2
  /\ frames[1] = FBadJson
  /\ frames[2] = FGood(6)
  /\ pc = "done"
  /\ Len(Responses) = 2
  /\ Responses[1].code = 0 - 32700
  /\ Responses[2].read = 2

\* the requests of the repertoire whose handling fails before any I/O, with
\* the failure's message
ExpectedFailure ==
  [m \in {7, 10, 11, 12, 13} |->
     CASE m = 7 -> "boom"
       [] m = 10 -> "uri required"
       [] m = 11 -> "Resource not found"
       [] m = 12 -> "name required"
       [] OTHER -> "Prompt not found"]

SupportedMethods ==
  {"initialize", "shutdown", "tools/list", "tools/call", "resources/list",
   "resources/read", "prompts/list", "prompts/get"}

\* C14: a request whose method is not one of the eight supported methods is
\* answered by one error -32601 "Method not found" with the request's id; no
\* registry method is called, the shutdown flag stays as it was and the loop
\* does not stop there.
C14_UnknownMethodNotFound ==
  \A i \in 1..Len(reads) :
    (Dispatched(i) /\ reads[i].k = "msg"
       /\ Msgs[reads[i].v].method \notin SupportedMethods)
    => /\ AnswersTo(i) = <<Response(idOrNull(Msgs[reads[i].v]), "error",
                                    0 - 32601, "Method not found", i)>>
       /\ CallsFor(i) = <<>>
       /\ ~shuttingDown
       /\ LoopWentOn(i)

\* C14 for every unsupported method but the name the transport keeps for
\* its parse-error sentinel
C14_ExceptSentinelName ==
  \A i \in 1..Len(reads) :
    (Dispatched(i) /\ reads[i].k = "msg"
       /\ Msgs[reads[i].v].method \notin SupportedMethods
       /\ Msgs[reads[i].v].method # "__internal_parse_error__")
    => /\ AnswersTo(i) = <<Response(idOrNull(Msgs[reads[i].v]), "error",
                                    0 - 32601, "Method not found", i)>>
       /\ CallsFor(i) = <<>>
       /\ LoopWentOn(i)

C14_ExceptSentinelName_Reached ==
  /\ Len(frames) = 1
  /\ frames[1] = FGood(5)
  /\ pc = "done"
  /\ Len(Responses) = 1

\* C15: resources/read without a uri and prompts/get without a name are
\* answered by one error -32000, "uri required" and "name required", with
\* the request's id, and no registry method, reader or template is used.
C15_MissingParamRefused ==
  \A i \in 1..Len(reads) :
    (Dispatched(i) /\ reads[i].k = "msg") =>
      LET req == Msgs[reads[i].v]
          id == idOrNull(req)
      IN  /\ (req.method = "resources/read" /\ req.uri = <<>>) =>
               /\ AnswersTo(i) = <<Response(id, "error", 0 - 32000, "uri required", i)>>
               /\ CallsFor(i) = <<>>
               /\ cur # i
          /\ (req.method = "prompts/get" /\ req.arg = "absent") =>
               /\ AnswersTo(i) = <<Response(id, "error", 0 - 32000, "name required", i)>>
               /\ CallsFor(i) = <<>>

C15_Witness ==
  /\ Len(frames) = 2
  /\ frames[1] = FGood(10)
  /\ frames[2] = FGood(12)
  /\ pc = "done"
  /\ Len(Responses) = 2
  /\ Responses[1].text = "uri required"
  /\ Responses[2].text = "name required"
  /\ calls = <<>>

-----------------------------------------------------------------------------
(* Claims about the registries.                                            *)

\* the register calls made on one registry, in order
RegsOf(reg) == SelectSeq(calls, LAMBDA c : c.reg = reg /\ c.op = "register")

\* the i-th of them is the latest under its name / under its URI
LatestByName(regs, i) ==
  \A j \in (i + 1)..Len(regs) : regs[j].def.name # regs[i].def.name
LatestByUri(regs, i) ==
  \A j \in (i + 1)..Len(regs) : regs[j].def.uri # regs[i].def.uri

Elems(seq) == {seq[i] : i \in 1..Len(seq)}

\* C16, for the tools: list() has one definition per name, the latest, and
\* call() runs the latest handler
C16_Tools ==
  LET regs == RegsOf("tools")
      l == ToolRegistry_list(tools)
  IN  /\ \A i, j \in 1..Len(l) : l[i].name = l[j].name => i = j
      /\ Elems(l) = {regs[i].def : i \in {k \in 1..Len(regs) : LatestByName(regs, k)}}
      /\ \A i \in 1..Len(regs) :
           LatestByName(regs, i) =>
             ToolRegistry_call(tools, regs[i].def.name).text = regs[i].item

\* C16, for the prompts: list() has one definition per name, the latest, and
\* get() renders the latest template
C16_Prompts ==
  LET regs == RegsOf("prompts")
      l == PromptRegistry_list(prompts)
  IN  /\ \A i, j \in 1..Len(l) : l[i].name = l[j].name => i = j
      /\ Elems(l) = {regs[i].def : i \in {k \in 1..Len(regs) : LatestByName(regs, k)}}
      /\ \A i \in 1..Len(regs) :
           LatestByName(regs, i) =>
             PromptRegistry_get(prompts, regs[i].def.name, <<>>).content
               = renderTemplate(regs[i].item, <<>>)

\* C16, for the resources: list() has one definition per URI, the latest,
\* and read() of a registered URI calls the latest reader
C16_Resources ==
  LET regs == RegsOf("resources")
      l == ResourceRegistry_list(resources)
  IN  /\ \A i, j \in 1..Len(l) : l[i].uri = l[j].uri => i = j
      /\ Elems(l) = {regs[i].def : i \in {k \in 1..Len(regs) : LatestByUri(regs, k)}}
      /\ \A i \in 1..Len(regs) :
           LatestByUri(regs, i) =>
             ResourceRegistry_read(resources, regs[i].def.uri).reader = regs[i].item

\* C16: in each of the three registries, after any sequence of register
\* calls, list() holds exactly one definition per key, the latest registered
\* under it, and call / read / get use the latest handler, reader, template.
C16_KeysUniqueLatestWins == C16_Tools /\ C16_Prompts /\ C16_Resources

\* the reader part of C16_Resources alone
C16_LatestReaderUsed ==
  LET regs == RegsOf("resources")
  IN  \A i \in 1..Len(regs) :
        LatestByUri(regs, i) =>
          ResourceRegistry_read(resources, regs[i].def.uri).reader = regs[i].item

\* the URI the resolution policy selects for uri among the registrations:
\* uri itself when registered, else the URI of the first registration that
\* is a prefix of uri, else none
SelectedUri(regs, uri) ==
  IF \E i \in 1..Len(regs) : regs[i].def.uri = uri THEN <<uri>>
  ELSE LET I == {i \in 1..Len(regs) :
                   /\ Len(regs[i].def.uri) <= Len(uri)
                   /\ \A n \in 1..Len(regs[i].def.uri) : regs[i].def.uri[n] = uri[n]}
       IN  IF I = {} THEN <<>>
           ELSE <<regs[CHOOSE i \in I : \A j \in I : i <= j].def.uri>>

\* C17: read(uri) uses the reader registered for uri itself when uri is
\* registered, even if an earlier registration is a prefix of it; otherwise
\* the reader of the first registration, in order, whose URI is a prefix of
\* uri; it fails with "Resource not found" when there is none; the reader is
\* called with the requested uri.
C17_ExactThenFirstPrefix ==
  called.op = "resources.read" =>
    LET regs == RegsOf("resources")
        sel == SelectedUri(regs, called.key)
    IN  IF sel = <<>>
          THEN called.res.k = "throw" /\ called.res.text = "Resource not found"
          ELSE /\ called.res.k = "reader"
               /\ called.res.uri = called.key
               /\ \E i \in 1..Len(regs) :
                    /\ regs[i].def.uri = sel[1]
                    /\ LatestByUri(regs, i)
                    /\ called.res.reader = regs[i].item

\* an exact match registered after one of its prefixes is read
C17_Witness ==
  /\ Len(calls) = 2
  /\ calls[1].reg = "resources" /\ calls[1].def.uri = <<"m:">>
  /\ calls[2].reg = "resources" /\ calls[2].def.uri = <<"m:", "x">>
  /\ called.op = "resources.read"
  /\ called.key = <<"m:", "x">>
  /\ called.res.reader = "h2"

-----------------------------------------------------------------------------
(* Claims about prompt rendering.                                          *)

\* the claimed value of a placeholder: the string form of variables[id]
\* when the caller gave the key id, else the empty string
ClaimedValue(variables, id) ==
  IF \E i \in 1..Len(variables) : variables[i].key = id
    THEN variables[CHOOSE i \in 1..Len(variables) : variables[i].key = id].val.s
    ELSE <<>>

IsWordPiece(c) == c \notin {"{", "}", " "}

\* a placeholder {{id}} starts at i and its identifier, id, has n pieces
PlaceholderAt(tpl, i, n) ==
  /\ n >= 1
  /\ i + n + 3 <= Len(tpl)
  /\ tpl[i] = "{" /\ tpl[i + 1] = "{"
  /\ \A j \in (i + 2)..(i + n + 1) : IsWordPiece(tpl[j])
  /\ tpl[i + n + 2] = "}" /\ tpl[i + n + 3] = "}"

\* the claimed rendering: scanning from the left, every placeholder gives
\* its claimed value and every other piece gives itself
RECURSIVE ClaimedRender(_, _, _)
ClaimedRender(tpl, i, variables) ==
  IF i > Len(tpl) THEN <<>>
  ELSE IF \E n \in 1..Len(tpl) : PlaceholderAt(tpl, i, n)
    THEN LET n == CHOOSE n \in 1..Len(tpl) : PlaceholderAt(tpl, i, n)
         IN  ClaimedValue(variables, SubSeq(tpl, i + 2, i + n + 1))
               \o ClaimedRender(tpl, i + n + 4, variables)
    ELSE <<tpl[i]>> \o ClaimedRender(tpl, i + 1, variables)

\* C18: get() of a registered prompt returns the template with every
\* {{identifier}} replaced by the string form of variables[identifier], or
\* by the empty string when the key is absent, everything else unchanged and
\* substituted values not expanded again; get() of an unregistered name
\* fails with "Prompt not found".
C18_RenderSubstitutesVariables ==
  called.op = "prompts.get" =>
    IF Map_has(prompts, called.key.name)
      THEN /\ called.res.k = "return"
           /\ called.res.content =
                ClaimedRender(Map_get(prompts, called.key.name).template, 1,
                              called.key.variables)
      ELSE called.res.k = "throw" /\ called.res.text = "Prompt not found"

\* an identifier is the name of a member of Object.prototype
NamesInherited(tpl) ==
  \E i \in 1..Len(tpl), n \in 1..Len(tpl) :
    PlaceholderAt(tpl, i, n) /\ SubSeq(tpl, i + 2, i + n + 1) \in ObjectPrototypeKeys

\* C18 for the templates none of whose identifiers names a member of
\* Object.prototype
C18_ExceptInheritedNames ==
  (called.op = "prompts.get" /\ Map_has(prompts, called.key.name)
     /\ ~NamesInherited(Map_get(prompts, called.key.name).template))
  => called.res.content =
       ClaimedRender(Map_get(prompts, called.key.name).template, 1,
                     called.key.variables)

\* two placeholders, one of them with a value that looks like a placeholder
C18_ExceptInheritedNames_Reached ==
  /\ called.op = "prompts.get"
  /\ called.key.name = "p"
  /\ Map_get(prompts, "p").template
       = Placeholder(<<"k">>) \o <<" ">> \o Placeholder(<<"k", "k">>)
  /\ called.key.variables = <<[key |-> <<"k">>, val |-> Str1(Placeholder(<<"k">>))]>>
  /\ called.res.content = Placeholder(<<"k">>) \o <<" ">>

-----------------------------------------------------------------------------
(* Claims about the wire format.                                           *)

\* b starts with a header block "Content-Length: n", CRLF, CRLF
HeaderBlockAt(b) ==
  /\ Len(b) >= 6
  /\ b[1] = B("Content-Length:", 0)
  /\ b[2].t = "int"
  /\ SubSeq(b, 3, 6) = <<CR, NL, CR, NL>>

\* the value read() returns for a body that is the JSON text of R
Read(R) == [k |-> "resp", v |-> 0, r |-> R]

\* C19: what write(R) puts on the stream is a Content-Length header with the
\* number of bytes of the body, a blank line and that many bytes; a second
\* transport reading the bytes of a sequence of written records returns
\* records equal to them, all of them, in order, and then the end of the
\* stream, for every chunking of the bytes.
C19_WriteReadRoundTrip ==
  (\A i \in 1..Len(frames) : frames[i].kind = "written") =>
    /\ \A i \in 1..Len(frames) :
         /\ HeaderBlockAt(frames[i].bytes)
         /\ Len(frames[i].bytes) = 6 + frames[i].bytes[2].v
    /\ Len(reads) <= Len(frames) + 1
    /\ \A i \in 1..Len(reads) :
         reads[i] = IF i <= Len(frames) THEN Read(frames[i].m) ELSE Undef
    /\ pc # "thrown"
    /\ Quiescent => pc = "done" /\ Len(reads) = Len(frames) + 1

\* two records, the first with a two-byte character, read back
C19_Witness ==
  /\ Len(frames) = 2
  /\ frames[1].kind = "written"
  /\ frames[1].m.text \in MultiByte
  /\ frames[2].kind = "written"
  /\ pc = "done"
  /\ reads = <<Read(frames[1].m), Read(frames[2].m), Undef>>

\* b is a concatenation of complete frames: header blocks "Content-Length:
\* n", each followed by exactly n bytes that are the JSON text of a response
RECURSIVE FramesOnly(_)
FramesOnly(b) ==
  \/ b = <<>>
  \/ /\ HeaderBlockAt(b)
     /\ b[2].v >= 1
     /\ Len(b) >= 6 + b[2].v
     /\ JSONparse(SubSeq(b, 7, 6 + b[2].v)).k = "resp"
     /\ FramesOnly(Drop(b, 6 + b[2].v))

\* how many times x occurs in seq
Count(seq, x) == Cardinality({i \in 1..Len(seq) : seq[i] = x})

\* C20: at every moment the protocol output is a concatenation of complete
\* frames, one per response written, and nothing else; every diagnostic
\* (invalid length, JSON parse error, handler error) is on the diagnostic
\* sink: one parse-error line per sentinel read, one handler-error line per
\* -32000 response, one invalid-length line per wait in drainBody.
C20_OutputIsFramesOnly ==
  /\ FramesOnly(WireBytes(out))
  /\ \A j \in 1..Len(out) : out[j].part \in {"header", "body"}
  /\ \A j \in 1..Len(diag) :
       diag[j] \in {"Invalid Content-Length:", "JSON parse error:", "Handler error:"}
  /\ Count(diag, "JSON parse error:") = Count(reads, ParseErrorSentinel)
  /\ Count(diag, "Handler error:")
       = Cardinality({j \in 1..Len(Responses) : Responses[j].code = 0 - 32000})
  /\ pc = "drain" => Count(diag, "Invalid Content-Length:") = 1

\* a response, then a handler error, then a frame with an invalid length:
\* two frames on the output, two lines on the diagnostic sink
C20_Witness ==
  /\ Len(frames) = 2
  /\ frames[1] = FGood(7)
  /\ frames[2] = FNegative
  /\ pc = "drain"
  /\ Len(Responses) = 1
  /\ diag = <<"Handler error:", "Invalid Content-Length:">>

-----------------------------------------------------------------------------
(* Claims about the responses on the wire.                                 *)

\* the frames of b, decoded: the JSON value of each body
RECURSIVE WrittenFrames(_)
WrittenFrames(b) ==
  IF ~HeaderBlockAt(b) \/ Len(b) < 6 + b[2].v THEN <<>>
  ELSE <<JSONparse(SubSeq(b, 7, 6 + b[2].v))>> \o WrittenFrames(Drop(b, 6 + b[2].v))

\* C21: every response frame on the output, decoded, has a result member or
\* an error member (the object literals of handle() and sendError() name
\* one of the two, so a frame has never both): the member written is the
\* one of the response record, for every method, shutdown (result null)
\* included, and for every result a handler returns.
C21_ExactlyOneOfResultOrError ==
  LET written == WrittenFrames(WireBytes(out))
  IN  /\ Len(written) = Len(Responses)
      /\ \A j \in 1..Len(written) :
           /\ written[j].k = "resp"
           /\ written[j].r.kind \in {"result", "error"}
           /\ written[j].r.kind = Responses[j].kind
           /\ written[j].r.kind = "error" <=> written[j].r.code # 0

\* an error frame (unknown method), then the frame of shutdown with result
\* null
C21_Witness ==
  LET written == WrittenFrames(WireBytes(out))
  IN  /\ Len(written) = 2
      /\ written[1].r.kind = "error"
      /\ written[1].r.code = 0 - 32601
      /\ written[2].r.kind = "result"
      /\ written[2].r.text = "null"
      /\ shuttingDown

\* C22: whatever requests have been dispatched, the registries are the ones
\* the constructor left, and the shutdown flag is set exactly when a
\* shutdown request has been dispatched.
C22_RegistriesReadOnly ==
  /\ tools = ServerTools
  /\ resources = ServerResources
  /\ prompts = ServerPrompts
  /\ shuttingDown <=> \E i \in 1..Len(reads) : Dispatched(i) /\ ReadMethod(i, "shutdown")

\* a tool has been called and a prompt rendered, both answered
C22_Witness ==
  /\ Len(reads) >= 2
  /\ ReadMethod(1, "tools/call")
  /\ ReadMethod(2, "prompts/get")
  /\ Len(Responses) = 2
  /\ Responses[1].kind = "result"
  /\ Responses[2].text = "prompt"
  /\ ~shuttingDown
  /\ tools = ServerTools

-----------------------------------------------------------------------------
(* Claims about the sandbox's listing and reading.                         *)

\* the regular files in the tree under the root
FilesUnder(root) ==
  {n.path : n \in {x \in FsNodes : x.type = "file" /\ Inside(x.path, root)}}

Min(a, b) == IF a <= b THEN a ELSE b

\* the items are distinct root-relative paths of regular files under the
\* root, min(max, number of regular files) of them
ListedRight(items, max) ==
  /\ Len(items) = Min(max, Cardinality(FilesUnder(base)))
  /\ \A i, j \in 1..Len(items) : items[i] = items[j] => i = j
  /\ \A i \in 1..Len(items) :
       /\ items[i] # <<>>
       /\ items[i][1] # sep
       /\ resolve(base, items[i]) \in FilesUnder(base)

\* C23: list(max) returns min(max, number of regular files under the root)
\* distinct root-relative paths, each of a regular file under the root.
C23_ListMinOfMaxAndFiles ==
  sbRes.k = "list" => ListedRight(sbRes.items, sbRes.max)

\* C23, for a root other than the root directory of the file system
C23_ExceptRootDirectory ==
  (sbRes.k = "list" /\ base # <<sep>>) => ListedRight(sbRes.items, sbRes.max)

\* a listing cut at max = 1 in a workspace of two files, and one of both
C23_ExceptRootDirectory_Reached ==
  /\ sbRes.k = "list"
  /\ base = ToPath(<<W>>)
  /\ sbRes.max = 1
  /\ sbRes.items = << <<"a">> >>

\* the readFile calls made for the current read
ReadFileOps == SelectSeq(fsOps, LAMBDA o : o.op = "readFile")

\* C24: a read(P) that passed the containment test and whose target exists
\* fails with 'Not a file', without reading, when the target is not a
\* regular file, and otherwise returns P as given and the contents of the
\* file, read by one readFile call.
C24_ReadFileOrNotAFile ==
  (/\ sbPc = "done"
   /\ sbRes.k \in {"ok", "error"}
   /\ safeResolve_ok(base, resolve(base, RelOf(sbUri)))
   /\ Exists(Real(sbAbs))) =>
    IF Node(Real(sbAbs)).type = "file"
      THEN /\ sbRes.k = "ok"
           /\ sbRes.path = RelOf(sbUri)
           /\ sbRes.text = Real(sbAbs)
           /\ ReadFileOps = <<[op |-> "readFile", path |-> sbAbs]>>
      ELSE /\ sbRes = [k |-> "error", text |-> <<"Not a file">>]
           /\ ReadFileOps = <<>>

\* the root itself, asked for as d/.., is refused
C24_Witness ==
  /\ base = ToPath(<<W>>)
  /\ RelOf(sbUri) = RelPath(<< <<"d">>, DotDot >>)
  /\ sbAbs = base
  /\ sbRes = [k |-> "error", text |-> <<"Not a file">>]

\* the requested relative path names a regular file of the workspace
NamesWorkspaceFile(uri) ==
  /\ RelOf(uri) # <<>>
  /\ RelOf(uri)[1] # sep
  /\ resolve(base, RelOf(uri)) \in FilesUnder(base)

\* what the claim says the reader returns for the uri
ReaderAsClaimed ==
  /\ sbUri = <<Scheme>> =>
       /\ sbRes.k = "list"
       /\ ListedRight(sbRes.items, sbRes.max)
       /\ sbRes.ret = [uri |-> sbUri, mimeType |-> "text/plain", text |-> join(sbRes.items)]
  /\ (sbUri # <<Scheme>> /\ NamesWorkspaceFile(sbUri)) =>
       /\ sbRes.k = "ok"
       /\ sbRes.ret = [uri |-> sbUri, mimeType |-> "text/plain",
                       text |-> resolve(base, RelOf(sbUri))]

\* C25: the reader of the file resource, called with "file:///", returns the
\* relative paths of the workspace's files joined by newlines, and called
\* with "file:///<relpath>", for a file <relpath> of the workspace, returns
\* the file's text, as text/plain; both with the uri it was called with.
C25_ListingAndFileText ==
  sbPc = "done" => ReaderAsClaimed

\* C25, for a root other than the root directory of the file system
C25_ExceptRootDirectory ==
  (sbPc = "done" /\ base # <<sep>>) => ReaderAsClaimed

\* the listing of a workspace of two files: two lines
C25_ExceptRootDirectory_Reached ==
  /\ sbPc = "done"
  /\ base = ToPath(<<W>>)
  /\ sbUri = <<Scheme>>
  /\ sbRes.k = "list"
  /\ sbRes.ret.text = <<"a", "\n", "d", "/", "b">>

-----------------------------------------------------------------------------
(* Claims about the transport on arbitrary byte streams.                   *)

Failure == [k |-> "throw", v |-> 0]

\* One read() on the bytes b given whole, the stream ending after them: the
\* result and the bytes left for the next read.  lenStr is the
\* Content-Length seen so far in the header block.
RECURSIVE RefRead(_, _)
RefRead(b, lenStr) ==
  IF ~HasNL(b) THEN [v |-> Undef, rest |-> <<>>]
  ELSE LET line == Take(b, FirstNL(b))
           rest == Drop(b, FirstNL(b))
       IN  IF line # <<CR, NL>> THEN RefRead(rest, readHeaders_line(line, lenStr))
           ELSE IF ~IsValidLength(lenStr) THEN [v |-> Undef, rest |-> rest]
           ELSE IF Len(rest) < parseInt(lenStr) THEN [v |-> Failure, rest |-> <<>>]
           ELSE [v |-> JSONparse(Take(rest, parseInt(lenStr))),
                 rest |-> Drop(rest, parseInt(lenStr))]

\* the results of n successive reads on the bytes b, up to the first failure
RECURSIVE RefReads(_, _)
RefReads(b, n) ==
  IF n = 0 THEN <<>>
  ELSE LET r == RefRead(b, <<>>)
       IN  IF r.v = Failure THEN <<r.v>> ELSE <<r.v>> \o RefReads(r.rest, n - 1)

\* the bytes not yet given to a caller: held by a reader, in the stream's
\* buffer, or not yet arrived
Pending == chunks \o buf \o Drop(Input, pos)

\* C26: whatever the chunks, the results of the reads made so far are those
\* of the same reads on the whole byte stream, a read fails only where that
\* one fails, and the bytes not yet consumed are a tail of the input in
\* their order: none lost, none twice, none out of place.
C26_ChunkingIndependent ==
  LET ref == RefReads(Input, Len(reads) + 1)
  IN  /\ Len(ref) >= Len(reads)
      /\ \A i \in 1..Len(reads) : reads[i] = ref[i]
      /\ pc = "thrown" => Len(ref) = Len(reads) + 1 /\ ref[Len(ref)] = Failure
      /\ ~unshiftErr
      /\ \E k \in 0..Len(Input) : Pending = Drop(Input, k)

\* two frames arrived in one chunk; the body of the first has been cut out
\* and the whole second frame pushed back
C26_Witness ==
  /\ frames = <<FGood(1), FGood(1)>>
  /\ pc = "bytes"
  /\ res.k = "bytes"
  /\ res.d = Encode(1)
  /\ buf = frames[2].bytes
  /\ pos = Len(Input)

\* the four outcomes of a read(): a decoded message, the parse-error
\* sentinel, and the empty result of a skip or of the end of the stream
IsOutcome(v) == v.k \in {"msg", "lit", "sentinel", "undef"}

\* C27: every read() ends with one of the four outcomes, never with a
\* failure.
C27_ReadNeverFails ==
  /\ pc # "thrown"
  /\ \A i \in 1..Len(reads) : IsOutcome(reads[i])

\* C27, for the inputs in which no body is cut short by the end of the
\* stream
C27_ExceptBodyCutShort ==
  (\A i \in 1..Len(RefReads(Input, MaxReads)) : RefReads(Input, MaxReads)[i] # Failure)
    => C27_ReadNeverFails

\* a frame, then a header line cut by the end of the stream: a message and
\* the end-of-stream result
C27_ExceptBodyCutShort_Reached ==
  /\ frames = <<FGood(1), FCutLine>>
  /\ ended
  /\ Len(reads) >= 2
  /\ reads[1] = [k |-> "msg", v |-> 1]
  /\ reads[2] = Undef

\* the input is requests followed by a header block cut short
EndsInsideHeaders ==
  /\ frames # <<>>
  /\ frames[Len(frames)].kind \in {"cutheaders", "cutline"}
  /\ \A i \in 1..(Len(frames) - 1) : frames[i].kind = "good"

\* C28: when the input ends inside a header block, the read that meets the
\* partial block returns the end-of-stream result (it neither fails nor
\* waits for ever), the partial bytes are dropped, and the only responses
\* written are those of the requests before it.
C28_EndInsideHeadersIsEndOfStream ==
  EndsInsideHeaders =>
    /\ Len(reads) <= Len(frames)
    /\ \A i \in 1..Len(reads) :
         reads[i] = IF i < Len(frames) THEN Carried(frames[i]) ELSE Undef
    /\ pc # "thrown"
    /\ \A j \in 1..Len(Responses) : Responses[j].read < Len(frames)
    /\ Len(Responses) < Len(frames)
    /\ Quiescent =>
         /\ pc = "done"
         /\ Len(reads) = Len(frames)
         /\ buf = <<>>
         /\ chunks = <<>>
         /\ Len(Responses) = Len(frames) - 1

\* a request answered, then a header line without its newline met at the
\* end of the stream
C28_Witness ==
  /\ frames = <<FGood(1), FCutLine>>
  /\ Quiescent
  /\ reads = <<Carried(frames[1]), Undef>>
  /\ Len(Responses) = 1
  /\ pc = "done"

\* the frame i is skipped for its length and the frame after it is a
\* request; the frames before it are requests too
SkippedThenGood(i) ==
  /\ i + 1 \in 1..Len(frames)
  /\ frames[i].kind = "badlen"
  /\ frames[i + 1].kind = "good"
  /\ \A j \in 1..(i - 1) : frames[j].kind = "good"

\* the read after the skip of frame i returned the message of frame i + 1
NextReadIsNextFrame(i) ==
  /\ Len(reads) >= i => reads[i] = Undef
  /\ Len(reads) >= i + 1 => reads[i + 1] = Carried(frames[i + 1])

\* C29: the read after one that skipped a frame of invalid length returns
\* the message of the next frame: no byte of the skipped frame's body is
\* taken for a header or body byte of that frame.
C29_SkippedFrameDrained ==
  \A i \in 1..Len(frames) : SkippedThenGood(i) => NextReadIsNextFrame(i)

\* C29, for skipped frames that have no body
C29_ExceptNonEmptyBody ==
  \A i \in 1..Len(frames) :
    (SkippedThenGood(i) /\ frames[i] = FZero) => NextReadIsNextFrame(i)

\* a frame of length 0 skipped, and the request after it read
C29_ExceptNonEmptyBody_Reached ==
  /\ frames = <<FZero, FGood(1)>>
  /\ Len(reads) >= 2
  /\ reads[1] = Undef
  /\ reads[2] = [k |-> "msg", v |-> 1]

-----------------------------------------------------------------------------
(* Claims about the end of the input and the handlers.                     *)

\* C30: while a handler is running the loop waits in `await this.handle`,
\* whether or not the input has ended; and when the loop has exited no
\* handler is running and every request the loop dispatched has its
\* response on the output.
C30_InFlightHandlerCompletes ==
  /\ cur # 0 => pc = "handle" /\ Len(reads) = cur /\ AnswersTo(cur) = <<>>
  /\ pc = "done" =>
       /\ cur = 0
       /\ \A i \in 1..Len(reads) : ~Falsy(reads[i]) => Len(AnswersTo(i)) = 1

\* the input has ended, and 'end' has been emitted, while the handler of a
\* resources/read is still running
C30_Witness ==
  /\ frames = <<FGood(4)>>
  /\ ended
  /\ endEmitted
  /\ Idle
  /\ cur = 1
  /\ pc = "handle"
  /\ Responses = <<>>

-----------------------------------------------------------------------------
(* Claims about the output stream.                                         *)

\* the loop is reading, or about to dispatch what it read
LoopRuns == pc \in {"line", "bytes", "drain", "ret"}

\* while the output cannot take more data the loop neither reads nor
\* dispatches, and no response written waits behind another for the output
LoopBlocksOnOutput ==
  /\ NeedDrain => ~LoopRuns
  /\ Written - Accepted <= OutHighWaterMark

\* C31: while the output stream cannot accept more data the loop is
\* blocked, and no more responses than the stream holds when it is full
\* have been produced and not accepted.
C31_WritesBlockTheLoop == LoopBlocksOnOutput

\* C31, for an output whose write() is synchronous
C31_ExceptAsyncOutput == sink.sync => LoopBlocksOnOutput

\* two responses written to a synchronous output, both accepted, and the
\* loop reading on
C31_ExceptAsyncOutput_Reached ==
  /\ sink.sync
  /\ Written = 2
  /\ Accepted = 2
  /\ pc = "line"

-----------------------------------------------------------------------------
(* Claims about the parse-error response.                                  *)

\* the responses to the reads in I are as the claim says: -32700 exactly for
\* a body that did not decode, and a decoded request that carries an
\* identifier has it in its response
ParseErrorOnlyForUndecoded(I) ==
  \A j \in 1..Len(Responses) :
    LET i == Responses[j].read
    IN  i \in I =>
          /\ Responses[j].code = 0 - 32700 <=> reads[i] = ParseErrorSentinel
          /\ (reads[i].k = "msg" /\ Msgs[reads[i].v].id # "absent")
               => Responses[j].id = Msgs[reads[i].v].id

\* C32: a response has code -32700 if and only if the read it answers
\* returned the sentinel of a body that failed to decode; the response to a
\* decoded request has the request's identifier, not null.
C32_ParseErrorIffUndecoded == ParseErrorOnlyForUndecoded(1..Len(reads))

\* C32, for the requests whose method is not the name the transport gives
\* its sentinel
C32_ExceptSentinelName ==
  ParseErrorOnlyForUndecoded(
    {i \in 1..Len(reads) : ~(reads[i].k = "msg"
                             /\ Msgs[reads[i].v].method = "__internal_parse_error__")})

\* an undecodable body answered with -32700 and a failing tool call
\* answered with -32000 and its identifier
C32_ExceptSentinelName_Reached ==
  /\ frames = <<FBadJson, FGood(7)>>
  /\ Len(Responses) = 2
  /\ Responses[1].code = 0 - 32700
  /\ Responses[1].id = "null"
  /\ Responses[2].code = 0 - 32000
  /\ Responses[2].id = "n2"

-----------------------------------------------------------------------------
(* Claims about the header block.                                          *)

\* C33: a frame whose Content-Length is written in capitals, or comes after
\* or before another header, is read as the message of its body: the block
\* is read to its empty line, the other header is not taken for the length,
\* and the body is read with the length Content-Length gives.
C33_OnlyContentLengthAnyCase ==
  WellFormedInput =>
    /\ Len(reads) <= Len(frames) + 1
    /\ \A i \in 1..Len(reads) :
         reads[i] = IF i <= Len(frames) THEN Carried(frames[i]) ELSE Undef
    /\ pc = "bytes" => cl = <<B("int", 2)>> /\ need = 2
    /\ pc \notin {"drain", "thrown"}

\* a frame with the name in capitals and one with another header after the
\* length, both read
C33_Witness ==
  /\ frames = <<FCapitals, FOtherAfter>>
  /\ pc = "done"
  /\ reads = <<[k |-> "msg", v |-> 1], [k |-> "msg", v |-> 1], Undef>>

-----------------------------------------------------------------------------
(* Claims about the cap of the listing.                                    *)

\* the cap is a number >= 1 and the listing has no more entries than it
CapHolds(listed) ==
  ~listed.max.nan /\ listed.max.n >= 1 /\ Len(listed.items) <= listed.max.n

\* C34: whatever the environment variable and the option are, the cap the
\* provider passes to the listing is a number >= 1 and the listing has at
\* most that many entries.
C34_CapAtLeastOne == sbRes.k = "list" => CapHolds(sbRes)

\* C34, for a variable that is absent, empty or a signed row of digits: the
\* cap is a number >= 1 and the listing has at most that many entries.
C34_ExceptNotANumber == (sbRes.k = "list" /\ ~sbRes.max.nan) => CapHolds(sbRes)

\* a variable of "0" gave the cap 1 and a listing of one entry out of several
C34_ExceptNotANumber_Reached ==
  /\ sbRes.k = "list"
  /\ sbRes.max = Num(1)
  /\ Len(sbRes.items) = 1
  /\ Cardinality(FilesUnder(base)) > 1

-----------------------------------------------------------------------------
(* Claims about the number of responses.                                   *)

\* the reads that returned a request with an identifier and were dispatched
IdentifiedDispatched ==
  {i \in 1..Len(reads) :
     Dispatched(i) /\ reads[i].k = "msg" /\ Msgs[reads[i].v].id # "absent"}

\* the loop is between two dispatches, or over
IterationBoundary == cur = 0 /\ pc \in {"line", "bytes", "drain", "done"}

\* C35: a dispatched request with an identifier never has two responses,
\* and when the loop is between two dispatches (or over) it has exactly one,
\* whether the method succeeded, was unknown, or its handler failed; so the
\* responses written for such requests are then as many as the requests.
C35_OneResponsePerIdentifiedRequest ==
  /\ \A i \in IdentifiedDispatched : Len(AnswersTo(i)) <= 1
  /\ IterationBoundary =>
       /\ \A i \in IdentifiedDispatched : Len(AnswersTo(i)) = 1
       /\ Len(SelectSeq(Responses, LAMBDA x : x.read \in IdentifiedDispatched))
            = Cardinality(IdentifiedDispatched)

\* an unknown method and a failing tool, both with an identifier, each
\* answered once, and the loop reading on
C35_Witness ==
  /\ IterationBoundary
  /\ pc # "done"
  /\ IdentifiedDispatched = {1, 2}
  /\ ReadMethod(1, "unknown/method")
  /\ ReadMethod(2, "tools/call")
  /\ Len(Responses) = 2
  /\ Responses[1].kind = "error"
  /\ Responses[2].kind = "error"

-----------------------------------------------------------------------------
(* Claims about the shutdown flag.                                         *)

\* run() is about to dispatch a request whose method is shutdown
ShutdownDispatch ==
  /\ pc = "ret"
  /\ ~Falsy(retv)
  /\ ~IsParseError(retv)
  /\ ReqOf(retv).method = "shutdown"

\* C36: the flag is false before the first read; a step never resets it;
\* and a step changes it only by dispatching a shutdown request, so no other
\* method, unknown method, parse-error frame or handler failure touches it.
C36_FlagSetOnlyByShutdown ==
  [][/\ Len(reads) = 0 => ~shuttingDown
     /\ shuttingDown => shuttingDown'
     /\ shuttingDown' # shuttingDown => ShutdownDispatch]_vars

\* a failing request answered with the flag still false, then a shutdown
\* that set it
C36_Witness ==
  /\ Len(reads) = 2
  /\ ~ReadMethod(1, "shutdown")
  /\ ReadMethod(2, "shutdown")
  /\ Len(Responses) = 2
  /\ Responses[1].kind = "error"
  /\ shuttingDown
  /\ pc = "done"

\* C37: once a shutdown has been dispatched, with an identifier or without
\* one, the flag is set, the loop is over, and the shutdown is the last
\* value read: no later frame is read or answered.
C37_ShutdownInEitherFormEndsLoop ==
  \A i \in 1..Len(reads) :
     (Dispatched(i) /\ ReadMethod(i, "shutdown")) =>
        /\ shuttingDown
        /\ pc = "done"
        /\ Len(reads) = i
        /\ \A j \in 1..Len(Responses) : Responses[j].read <= i

\* a shutdown without an identifier was dispatched with a whole request
\* behind it, which has arrived and is left unread
C37_Witness ==
  /\ Len(frames) = 2
  /\ frames[1] = FGood(16)
  /\ frames[2] = FGood(4)
  /\ Msgs[16].id = "absent"
  /\ ended
  /\ pos = Len(Input)
  /\ Quiescent
  /\ pc = "done"
  /\ Len(reads) = 1
  /\ shuttingDown
  /\ \A j \in 1..Len(Responses) : Responses[j].read = 1

-----------------------------------------------------------------------------
(* Claims about initialize.                                                *)

\* the responses handle() can write for a request of its own, whatever was
\* dispatched before it, with r as the number of its read(): for a file
\* read, the content or the failure of the file system
ServedAlone(req, r) ==
  IF Suspends(req)
    THEN {Response(idOrNull(req), "result", 0, "resource", r),
          Response(idOrNull(req), "error", 0 - 32000, "Not a file", r)}
  ELSE {handle_out(<<>>, req, r)[2].obj}

\* C38: every response is the one its request gets on its own, whether an
\* initialize was dispatched before it or not; each initialize is answered
\* with the same result; and while only initialize requests have been
\* dispatched the flag, the registries and the registry calls are as the
\* constructor left them.
C38_NoInitializationState ==
  /\ \A j \in 1..Len(Responses) :
       LET i == Responses[j].read
       IN  reads[i].k = "msg" =>
             /\ Responses[j] \in ServedAlone(Msgs[reads[i].v], i)
             /\ ReadMethod(i, "initialize") =>
                  Responses[j] = Response(idOrNull(Msgs[reads[i].v]), "result", 0, "initialize", i)
  /\ (\A i \in 1..Len(reads) : reads[i] \in {[k |-> "msg", v |-> 1], Undef}) =>
       /\ ~shuttingDown
       /\ cur = 0
       /\ calls = <<>>
       /\ Constructed

\* a tool called with no initialize before it and answered with its
\* result, then an initialize answered with its own
C38_Witness ==
  /\ Len(reads) = 3
  /\ pc = "done"
  /\ Len(Responses) = 2
  /\ reads[1] = [k |-> "msg", v |-> 9]
  /\ reads[2] = [k |-> "msg", v |-> 1]
  /\ Responses[1].kind = "result"
  /\ Responses[1].text # "initialize"
  /\ Responses[2].text = "initialize"
  /\ ~shuttingDown

-----------------------------------------------------------------------------
(* Claims about the readers' listeners.                                    *)

\* a process.nextTick job of the stream runs: a 'readable' or 'end'
\* notification, or the bookkeeping of a removed listener
NotificationStep == tq # <<>> /\ phase' = "tick" /\ tq' # tq

\* C39: a reader is attached only when none is attached; a reader that has
\* settled has its listeners off and holds no bytes; and a notification
\* delivered while no reader is attached takes no byte from the stream and
\* settles nothing.
C39_OneReaderAtATime ==
  [][/\ (rkind' # "none" /\ rkind' # rkind) => rkind = "none"
     /\ res' # NoRes => (rkind' = "none" /\ chunks' = <<>>)
     /\ (NotificationStep /\ rkind = "none") =>
          (buf' = buf /\ res' = res /\ rkind' = "none" /\ chunks' = chunks)]_vars

\* a line reader has settled and taken its listeners off with bytes left in
\* the stream, and the 'readable' notification of its unshift is still to
\* be delivered
C39_Witness ==
  /\ res.k = "line"
  /\ rkind = "none"
  /\ buf # <<>>
  /\ tq # <<>>
  /\ Head(tq) = "emitReadable_"

====
